---------------------------- MODULE Spec2Model ----------------------------
(***************************************************************************)
(* State-machine model of harolds-synth: the SynthEngine class             *)
(* (src/src/audio/SynthEngine.ts) and the gesture mapper of the App        *)
(* component (src/src/App.tsx).                                            *)
(*                                                                         *)
(* Units.  TLC has integers only, so every real quantity of the source is  *)
(* kept in a fixed integer unit:                                           *)
(*   audio clock (AudioContext.currentTime)  ticks of 50 ms                *)
(*       0.05 s = 1 tick, 0.1 s = 2 ticks, 3.0 s = 60 ticks                *)
(*   master gain                             thousandths (0.3 = 300)       *)
(*   cutoff, LFO depth amplitude, offset     Hz                            *)
(*   lfoDepth fraction                       percent (1.0 = 100)           *)
(*   LFO rate                                tenths of a Hz (0.2 = 2)      *)
(*   waveform morph / openness               thousandths (0.05 = 50)       *)
(*   oscillator frequency                    MIDI pitch p, standing for    *)
(*                                           440 * 2^((p - 69) / 12) Hz    *)
(*   wall clock (Date.now())                 milliseconds                  *)
(***************************************************************************)
EXTENDS Integers, Sequences, FiniteSets, TLC

VARIABLES
    synth,                 \* the SynthEngine instance (App's synthEngineRef.current)
    app                    \* the App component: React state, refs, pending timer

vars == <<synth, app>>

(***************************************************************************)
(* Bounds of the model and constants of the program.                       *)
(***************************************************************************)
MaxTime == 60
MaxEvents == 2
MaxRenders == 4
SinceCap == 600

minCutoff == 300
MinRoot == 36
MaxRoot == 84
targetVolume == 300
fadeDuration == 60
PITCH_CHANGE_DEBOUNCE_MS == 500
CHORD_TOGGLE_DEBOUNCE_MS == 300

Min(a, b) == IF a < b THEN a ELSE b
Max(a, b) == IF a > b THEN a ELSE b
Abs(a) == IF a < 0 THEN -a ELSE a

(***************************************************************************)
(* AudioParam: the current value (what the .value getter returns: the      *)
(* value computed by the last render), the last event the renderer has     *)
(* passed (at, from), and the automation events still ahead, ordered by    *)
(* time.                                                                   *)
(***************************************************************************)
NewParam(v, now) == [value |-> v, at |-> now, from |-> v, events |-> <<>>]

NullParam == NewParam(0, 0)

InsertEvent(p, e) ==
    LET n == Cardinality({i \in 1..Len(p.events) : p.events[i].t <= e.t})
    IN  [p EXCEPT !.events = SubSeq(p.events, 1, n) \o <<e>>
                              \o SubSeq(p.events, n + 1, Len(p.events))]

setValueAtTime(p, v, t) == InsertEvent(p, [type |-> "set", v |-> v, t |-> t])

linearRampToValueAtTime(p, v, t) ==
    InsertEvent(p, [type |-> "ramp", v |-> v, t |-> t])

KeepBefore(events, t) == SelectSeq(events, LAMBDA e : e.t < t)

cancelScheduledValues(p, t) == [p EXCEPT !.events = KeepBefore(p.events, t)]

\* param.value = v
SetValue(p, v, now) == [setValueAtTime(p, v, now) EXCEPT !.value = v]

\* The renderer reaching time now: events up to now are consumed, and the
\* value is the last consumed event's, or the point of a ramp in progress.
Render(p, now) ==
    LET n    == Cardinality({i \in 1..Len(p.events) : p.events[i].t <= now})
        at   == IF n = 0 THEN p.at ELSE p.events[n].t
        from == IF n = 0 THEN p.from ELSE p.events[n].v
        rest == SubSeq(p.events, n + 1, Len(p.events))
        val  == IF rest # <<>> /\ rest[1].type = "ramp"
                THEN from + ((rest[1].v - from) * (now - at)) \div (rest[1].t - at)
                ELSE from
    IN  [value |-> val, at |-> at, from |-> from, events |-> rest]

\* The value the automation of p ends at once every scheduled event has run.
EndValue(p) == IF p.events = <<>> THEN p.from ELSE p.events[Len(p.events)].v

(***************************************************************************)
(* Chord tables.                                                           *)
(***************************************************************************)
\* Mutant: the major chords get the minor third.
ChordIntervals_MinorThird(extension, quality) ==
    IF extension = 7
    THEN IF quality = "minor" THEN <<0, 3, 7, 10>> ELSE <<0, 3, 7, 11>>
    ELSE IF extension = 9
    THEN IF quality = "minor" THEN <<0, 3, 7, 10, 14>> ELSE <<0, 3, 7, 11, 14>>
    ELSE <<>>

ChordIntervals(extension, quality) ==
    IF extension = 7
    THEN IF quality = "minor" THEN <<0, 3, 7, 10>> ELSE <<0, 4, 7, 11>>
    ELSE IF extension = 9
    THEN IF quality = "minor" THEN <<0, 3, 7, 10, 14>> ELSE <<0, 4, 7, 11, 14>>
    ELSE <<>>

getChordFrequencies(root, extension, quality) ==
    LET intervals == ChordIntervals(extension, quality)
    IN  [i \in 1..Len(intervals) |-> root + intervals[i]]

\* Mutant: a NINTH chord is counted as 4 voices.
getOscillatorCount_NinthAsSeventh(extension) ==
    IF extension = 5 THEN 2
    ELSE IF extension = 7 THEN 4
    ELSE IF extension = 9 THEN 4
    ELSE 4

getOscillatorCount(extension) ==
    IF extension = 5 THEN 2
    ELSE IF extension = 7 THEN 4
    ELSE IF extension = 9 THEN 5
    ELSE 4


(***************************************************************************)
(* The SynthEngine instance is a record of its private fields.             *)
(*   audioContext  "null" | "running"; the nodes created together with it  *)
(*                 (filter, gainNode, lfo, lfoGain, lfoOffset) are null    *)
(*                 exactly when it is                                      *)
(*   time          audioContext.currentTime                                *)
(*   oscillators   the voice bank; an oscillator is                        *)
(*                 [id, type, wave, frequency]: id is the object's         *)
(*                 identity, wave the openness its custom periodic wave    *)
(*                 was built from (0 for a native type)                    *)
(*   gain, lfoGain, lfoOffset, lfo                                         *)
(*                 the AudioParams gainNode.gain, lfoGain.gain,            *)
(*                 lfoOffset.offset and lfo.frequency                      *)
(*   log           history: the calls made on the engine during the last   *)
(*                 step, each [op, args, result]                           *)
(***************************************************************************)
NewSynthEngine ==
    [audioContext |-> "null", time |-> 0,
     oscillators |-> <<>>, isPlaying |-> FALSE,
     rootMidi |-> 48, chordExtension |-> 7, chordQuality |-> "minor",
     maxCutoff |-> 1000, currentLfoRate |-> 2, lfoDepth |-> 100,
     currentWaveformMorph |-> 0, lfoStartTime |-> 0, isLfoFrozen |-> FALSE,
     gain |-> NullParam, lfoGain |-> NullParam, lfoOffset |-> NullParam,
     lfo |-> NullParam,
     log |-> <<>>]

Log(e, op, args, result) ==
    [e EXCEPT !.log = Append(@, [op |-> op, args |-> args, result |-> result])]

ClearLog(e) == [e EXCEPT !.log = <<>>]

\* Mutant: the range is not halved.
DepthAmplitude_NotHalved(e) == ((e.maxCutoff - minCutoff) * e.lfoDepth) \div 100

\* (range * lfoDepth) / 2
DepthAmplitude(e) == ((e.maxCutoff - minCutoff) * e.lfoDepth) \div 200

\* Mutant: the centerpoint is not halved.
getBaseCutoff_NotHalved(e) == minCutoff + e.maxCutoff

getBaseCutoff(e) == (minCutoff + e.maxCutoff) \div 2

updateLfoDepth(e) ==
    IF e.audioContext = "null" THEN e
    ELSE [e EXCEPT !.lfoGain =
              linearRampToValueAtTime(@, DepthAmplitude(e), e.time + 2)]

updateLfoOffset(e) ==
    IF e.audioContext = "null" THEN e
    ELSE [e EXCEPT !.lfoOffset =
              linearRampToValueAtTime(@, getBaseCutoff(e), e.time + 2)]

initialize(e) ==
    IF e.audioContext # "null" THEN Log(e, "initialize", <<>>, "noop")
    ELSE LET e1 == [e EXCEPT !.audioContext = "running",
                             !.time = 0,
                             !.lfo = SetValue(NewParam(4400, 0), e.currentLfoRate, 0),
                             !.lfoGain = NewParam(1, 0),
                             !.lfoOffset = NewParam(1, 0)]
             e2 == updateLfoOffset(updateLfoDepth(e1))
             e3 == [e2 EXCEPT !.lfoStartTime = 0,
                              !.gain = SetValue(NewParam(1000, 0), 300, 0)]
         IN  Log(e3, "initialize", <<>>, "ok")

(***************************************************************************)
(* Oscillator objects.  A created oscillator gets an identity no           *)
(* oscillator of the current bank has.                                     *)
(***************************************************************************)
BankIds(bank) == {bank[i].id : i \in 1..Len(bank)}

\* Mutant: the first oscillator objects of the bank are used again.
NewIds_Reused(bank, n) == [k \in 1..n |-> k]

NewIds(bank, n) ==
    LET free == (1..(Len(bank) + n)) \ BankIds(bank)
    IN  [k \in 1..n |->
            CHOOSE i \in free : Cardinality({j \in free : j < i}) = k - 1]

(***************************************************************************)
(* The harmonic table of a custom periodic wave.  A coefficient is the     *)
(* real number (num + piNum * 8/pi^2) / den, kept exactly as three         *)
(* integers (8/pi^2 is irrational, so the two parts never mix); openness   *)
(* is in thousandths.                                                      *)
(***************************************************************************)
numHarmonics == 32

Coefficient(num, piNum, den) == [num |-> num, piNum |-> piNum, den |-> den]

\* Math.pow(-1, (i - 1) / 2) for an odd i
TriangleSign(i) == IF ((i - 1) \div 2) % 2 = 0 THEN 1 ELSE -1

\* Mutant: the triangle series is given to the even harmonics as well.
setCustomWaveform_EvenTriangle(openness) ==
    [real |-> [i \in 0..(numHarmonics - 1) |-> Coefficient(0, 0, 1)],
     imag |-> [i \in 0..(numHarmonics - 1) |->
                  IF i = 0 THEN Coefficient(0, 0, 1)
                  ELSE IF i = 1 THEN Coefficient(1, 0, 1)
                  ELSE Coefficient((1000 - openness) * i, openness, 1000 * i * i)]]

\* The arrays handed to createPeriodicWave: for i >= 2
\*   imag[i] = (1/i) * (1 - openness) + triangleAmplitude * openness
\* with triangleAmplitude = 8/(pi^2 i^2) * sign for odd i and 0 for even i,
\* written over the common denominator 1000 * i * i.
setCustomWaveform(openness) ==
    [real |-> [i \in 0..(numHarmonics - 1) |-> Coefficient(0, 0, 1)],
     imag |-> [i \in 0..(numHarmonics - 1) |->
                  IF i = 0 THEN Coefficient(0, 0, 1)
                  ELSE IF i = 1 THEN Coefficient(1, 0, 1)
                  ELSE Coefficient((1000 - openness) * i,
                                   IF i % 2 = 1 THEN TriangleSign(i) * openness ELSE 0,
                                   1000 * i * i)]]

applyWaveform(oscillator, openness) ==
    IF openness <= 50 THEN [oscillator EXCEPT !.type = "sawtooth", !.wave = 0]
    ELSE IF openness >= 1000 - 50
    THEN [oscillator EXCEPT !.type = "triangle", !.wave = 0]
    ELSE [oscillator EXCEPT !.type = "custom", !.wave = setCustomWaveform(openness)]

\* createOscillator(); frequency.value = freq; type = 'sawtooth'
SawtoothOscillator(id, freq, now) ==
    [id |-> id, type |-> "sawtooth", wave |-> 0,
     frequency |-> SetValue(NewParam(69, now), freq, now)]

\* Mutant: start() does not look at isPlaying.
start_Again(e) ==
    IF e.audioContext = "null" THEN Log(e, "start", <<>>, "error")
    ELSE LET now == e.time
             frequencies == getChordFrequencies(e.rootMidi, e.chordExtension,
                                                e.chordQuality)
             ids == NewIds(e.oscillators, Len(frequencies))
         IN  Log([e EXCEPT
                    !.gain = setValueAtTime(cancelScheduledValues(@, now), 0, now),
                    !.oscillators = [i \in 1..Len(frequencies) |->
                        SawtoothOscillator(ids[i], frequencies[i], now)],
                    !.isPlaying = TRUE],
                 "start", <<>>, "ok")

start(e) ==
    IF e.audioContext = "null" THEN Log(e, "start", <<>>, "error")
    ELSE IF e.isPlaying THEN Log(e, "start", <<>>, "noop")
    ELSE LET now == e.time
             frequencies == getChordFrequencies(e.rootMidi, e.chordExtension,
                                                e.chordQuality)
             ids == NewIds(e.oscillators, Len(frequencies))
         IN  Log([e EXCEPT
                    !.gain = setValueAtTime(cancelScheduledValues(@, now), 0, now),
                    !.oscillators = [i \in 1..Len(frequencies) |->
                        SawtoothOscillator(ids[i], frequencies[i], now)],
                    !.isPlaying = TRUE],
                 "start", <<>>, "ok")

Clamp(lo, hi, v) == Max(lo, Min(hi, v))

\* Mutant: the requested root is compared before it is clamped.
ChordChanged_Unclamped(e, root, extension, quality) ==
    \/ e.rootMidi # root
    \/ e.chordExtension # extension
    \/ e.chordQuality # quality

ChordChanged(e, root, extension, quality) ==
    \/ e.rootMidi # Clamp(MinRoot, MaxRoot, root)
    \/ e.chordExtension # extension
    \/ e.chordQuality # quality

\* Mutant: every chord change while playing replaces the voices.
setChord_AlwaysRebuilds(e, root, extension, quality) ==
    LET clampedRoot == Clamp(MinRoot, MaxRoot, root)
        e1 == [e EXCEPT !.rootMidi = clampedRoot,
                        !.chordExtension = extension,
                        !.chordQuality = quality]
        frequencies == getChordFrequencies(clampedRoot, extension, quality)
        ids == NewIds(e.oscillators, Len(frequencies))
        args == <<root, extension, quality>>
    IN  IF ~ChordChanged(e, root, extension, quality)
        THEN Log(e, "setChord", args, "noop")
        ELSE IF e.isPlaying
        THEN Log([e1 EXCEPT !.oscillators = [i \in 1..Len(frequencies) |->
                     applyWaveform(
                         SawtoothOscillator(ids[i], frequencies[i], e.time),
                         e.currentWaveformMorph)]],
                 "setChord", args, "rebuild")
        ELSE Log(e1, "setChord", args, "stored")

setChord(e, root, extension, quality) ==
    LET clampedRoot == Clamp(MinRoot, MaxRoot, root)
        chordChanged == ChordChanged(e, root, extension, quality)
        oldOscillatorCount == getOscillatorCount(e.chordExtension)
        newOscillatorCount == getOscillatorCount(extension)
        e1 == [e EXCEPT !.rootMidi = clampedRoot,
                        !.chordExtension = extension,
                        !.chordQuality = quality]
        frequencies == getChordFrequencies(clampedRoot, extension, quality)
        ids == NewIds(e.oscillators, Len(frequencies))
        args == <<root, extension, quality>>
    IN  IF ~chordChanged THEN Log(e, "setChord", args, "noop")
        ELSE IF e.isPlaying /\ oldOscillatorCount # newOscillatorCount
        THEN Log([e1 EXCEPT !.oscillators = [i \in 1..Len(frequencies) |->
                     applyWaveform(
                         SawtoothOscillator(ids[i], frequencies[i], e.time),
                         e.currentWaveformMorph)]],
                 "setChord", args, "rebuild")
        ELSE IF e.isPlaying /\ Len(e.oscillators) = newOscillatorCount
        THEN Log([e1 EXCEPT !.oscillators = [i \in 1..Len(e.oscillators) |->
                     IF i <= Len(frequencies)
                     THEN [e.oscillators[i] EXCEPT !.frequency =
                              linearRampToValueAtTime(@, frequencies[i], e.time + 1)]
                     ELSE e.oscillators[i]]],
                 "setChord", args, "retune")
        ELSE Log(e1, "setChord", args, "stored")

setChordExtension(e, extension) ==
    IF e.chordExtension = extension THEN Log(e, "setChordExtension", <<extension>>, "noop")
    ELSE setChord(Log(e, "setChordExtension", <<extension>>, "ok"),
                  e.rootMidi, extension, e.chordQuality)

setChordQuality(e, quality) ==
    IF e.chordQuality = quality THEN Log(e, "setChordQuality", <<quality>>, "noop")
    ELSE setChord(Log(e, "setChordQuality", <<quality>>, "ok"),
                  e.rootMidi, e.chordExtension, quality)

stop(e) ==
    IF ~e.isPlaying THEN Log(e, "stop", <<>>, "noop")
    ELSE Log([e EXCEPT !.oscillators = <<>>, !.isPlaying = FALSE],
             "stop", <<>>, "ok")

\* The osc.stop() calls of the forEach over the bank, as log entries: the
\* call on a voice in failing throws.  With the try/catch around it the
\* loop goes on to the next voice; without it the loop ends at the first
\* throw.
RECURSIVE StopCalls(_, _, _, _)
StopCalls(bank, failing, i, guarded) ==
    IF i > Len(bank) THEN <<>>
    ELSE IF i \in failing
    THEN <<[op |-> "osc.stop", args |-> <<bank[i].id>>, result |-> "threw"]>>
             \o (IF guarded THEN StopCalls(bank, failing, i + 1, guarded) ELSE <<>>)
    ELSE <<[op |-> "osc.stop", args |-> <<bank[i].id>>, result |-> "ok"]>>
             \o StopCalls(bank, failing, i + 1, guarded)

\* Mutant: osc.stop() is called without the try/catch, so the first throw
\* leaves stop() before the bank is emptied.
stopWhere_Unguarded(e, failing) ==
    IF ~e.isPlaying THEN Log(e, "stop", <<>>, "noop")
    ELSE LET e1 == [e EXCEPT !.log = @ \o StopCalls(e.oscillators, failing, 1, FALSE)]
         IN  IF failing \cap (1..Len(e.oscillators)) # {}
             THEN Log(e1, "stop", <<>>, "error")
             ELSE Log([e1 EXCEPT !.oscillators = <<>>, !.isPlaying = FALSE],
                      "stop", <<>>, "ok")

\* stop() with its calls on the voices spelled out, where osc.stop() throws
\* for the voices at the positions in failing.
stopWhere(e, failing) ==
    IF ~e.isPlaying THEN Log(e, "stop", <<>>, "noop")
    ELSE LET e1 == [e EXCEPT !.log = @ \o StopCalls(e.oscillators, failing, 1, TRUE)]
         IN  Log([e1 EXCEPT !.oscillators = <<>>, !.isPlaying = FALSE],
                 "stop", <<>>, "ok")

\* duration ?? this.fadeDuration; an omitted argument is <<>>, a given one <<d>>
FadeTime(duration) == IF duration = <<>> THEN fadeDuration ELSE duration[1]

\* Mutant: the new ramp is installed without cancelling what was scheduled.
RampFromCurrent_NoCancel(p, target, now, fadeTime) ==
    linearRampToValueAtTime(setValueAtTime(p, p.value, now), target, now + fadeTime)

\* cancelScheduledValues(now); setValueAtTime(param.value, now);
\* linearRampToValueAtTime(target, now + fadeTime)
RampFromCurrent(p, target, now, fadeTime) ==
    linearRampToValueAtTime(
        setValueAtTime(cancelScheduledValues(p, now), p.value, now),
        target, now + fadeTime)

(***************************************************************************)
(* Math.sin(2 * PI * currentLfoRate * elapsed), times 1000.  With the rate *)
(* in tenths of a Hz and elapsed in ticks of 50 ms the LFO has run         *)
(* rate * elapsed / 200 cycles; the sine is tabulated at twelfths of a     *)
(* cycle and the phase is rounded down to one.                             *)
(***************************************************************************)
SineTable == <<0, 500, 866, 1000, 866, 500, 0, -500, -866, -1000, -866, -500>>

LfoSine(rate, elapsed) == SineTable[(((rate * elapsed * 12) \div 200) % 12) + 1]

getActualFilterFrequency(e, currentTime) ==
    IF e.audioContext = "null" THEN getBaseCutoff(e)
    ELSE LET elapsed == currentTime - e.lfoStartTime
             lfoPhase == LfoSine(e.currentLfoRate, elapsed)
         IN  getBaseCutoff(e) + (lfoPhase * DepthAmplitude(e)) \div 1000

\* Mutant: fading out also stops and discards the voices, as stop() does.
fadeOut_Stops(e, duration) ==
    IF e.audioContext = "null" THEN Log(e, "fadeOut", duration, "noop")
    ELSE LET fadeTime == FadeTime(duration)
             now == e.time
             currentFreq == getActualFilterFrequency(e, now)
             e1 == IF ~e.isLfoFrozen
                   THEN [e EXCEPT
                           !.lfoGain = RampFromCurrent(@, 0, now, fadeTime),
                           !.lfoOffset = RampFromCurrent(@, currentFreq, now, fadeTime),
                           !.isLfoFrozen = TRUE]
                   ELSE e
         IN  Log([e1 EXCEPT !.gain = RampFromCurrent(@, 0, now, fadeTime),
                            !.oscillators = <<>>, !.isPlaying = FALSE],
                 "fadeOut", duration,
                 IF e.isLfoFrozen THEN "ok" ELSE "froze")

fadeOut(e, duration) ==
    IF e.audioContext = "null" THEN Log(e, "fadeOut", duration, "noop")
    ELSE LET fadeTime == FadeTime(duration)
             now == e.time
             currentFreq == getActualFilterFrequency(e, now)
             e1 == IF ~e.isLfoFrozen
                   THEN [e EXCEPT
                           !.lfoGain = RampFromCurrent(@, 0, now, fadeTime),
                           !.lfoOffset = RampFromCurrent(@, currentFreq, now, fadeTime),
                           !.isLfoFrozen = TRUE]
                   ELSE e
         IN  Log([e1 EXCEPT !.gain = RampFromCurrent(@, 0, now, fadeTime)],
                 "fadeOut", duration,
                 IF e.isLfoFrozen THEN "ok" ELSE "froze")

\* Mutant: fadeIn restores the modulation whether or not it was frozen.
fadeIn_AlwaysRestores(e, duration) ==
    IF e.audioContext = "null" THEN Log(e, "fadeIn", duration, "noop")
    ELSE LET fadeTime == FadeTime(duration)
             now == e.time
             e1 == [e EXCEPT
                      !.lfoOffset = RampFromCurrent(@, getBaseCutoff(e), now, fadeTime),
                      !.lfoGain = RampFromCurrent(@, DepthAmplitude(e), now, fadeTime),
                      !.isLfoFrozen = FALSE]
         IN  Log([e1 EXCEPT !.gain = RampFromCurrent(@, targetVolume, now, fadeTime)],
                 "fadeIn", duration,
                 IF e.isLfoFrozen THEN "unfroze" ELSE "ok")

fadeIn(e, duration) ==
    IF e.audioContext = "null" THEN Log(e, "fadeIn", duration, "noop")
    ELSE LET fadeTime == FadeTime(duration)
             now == e.time
             e1 == IF e.isLfoFrozen
                   THEN [e EXCEPT
                           !.lfoOffset = RampFromCurrent(@, getBaseCutoff(e), now, fadeTime),
                           !.lfoGain = RampFromCurrent(@, DepthAmplitude(e), now, fadeTime),
                           !.isLfoFrozen = FALSE]
                   ELSE e
         IN  Log([e1 EXCEPT !.gain = RampFromCurrent(@, targetVolume, now, fadeTime)],
                 "fadeIn", duration,
                 IF e.isLfoFrozen THEN "unfroze" ELSE "ok")

isSilent(e) == IF e.audioContext = "null" THEN TRUE ELSE e.gain.value < 10

setMaxFilterCutoff(e, cutoff) ==
    LET clampedMax == Max(minCutoff + 100, Min(20000, cutoff))
        e1 == [e EXCEPT !.maxCutoff = clampedMax]
    IN  Log(updateLfoOffset(updateLfoDepth(e1)), "setMaxFilterCutoff", <<cutoff>>, "ok")

\* Mutant: the requested rate is stored without the upper limit of 7 Hz.
setLfoRate_NoUpperLimit(e, rate) ==
    IF e.audioContext = "null" THEN Log(e, "setLfoRate", <<rate>>, "noop")
    ELSE LET clampedRate == Max(1, rate)
         IN  Log([e EXCEPT !.currentLfoRate = clampedRate,
                           !.lfo = linearRampToValueAtTime(@, clampedRate, e.time + 2)],
                 "setLfoRate", <<rate>>, "ok")

setLfoRate(e, rate) ==
    IF e.audioContext = "null" THEN Log(e, "setLfoRate", <<rate>>, "noop")
    ELSE LET clampedRate == Max(1, Min(70, rate))
         IN  Log([e EXCEPT !.currentLfoRate = clampedRate,
                           !.lfo = linearRampToValueAtTime(@, clampedRate, e.time + 2)],
                 "setLfoRate", <<rate>>, "ok")

setLfoDepth(e, depth) ==
    LET clampedDepth == Max(10, Min(100, depth))
    IN  Log(updateLfoDepth([e EXCEPT !.lfoDepth = clampedDepth]),
            "setLfoDepth", <<depth>>, "ok")

\* Mutant: the argument is used as given, without the clamp to [0, 1].
setWaveformFromOpenness_Unclamped(e, openness) ==
    IF Abs(e.currentWaveformMorph - openness) < 10
    THEN Log(e, "setWaveformFromOpenness", <<openness>>, "noop")
    ELSE Log([e EXCEPT
                !.currentWaveformMorph = openness,
                !.oscillators = IF e.isPlaying
                    THEN [i \in 1..Len(e.oscillators) |->
                             applyWaveform(e.oscillators[i], openness)]
                    ELSE @],
             "setWaveformFromOpenness", <<openness>>, "ok")

setWaveformFromOpenness(e, openness) ==
    LET clampedOpenness == Max(0, Min(1000, openness))
    IN  IF Abs(e.currentWaveformMorph - clampedOpenness) < 10
        THEN Log(e, "setWaveformFromOpenness", <<openness>>, "noop")
        ELSE Log([e EXCEPT
                    !.currentWaveformMorph = clampedOpenness,
                    !.oscillators = IF e.isPlaying
                        THEN [i \in 1..Len(e.oscillators) |->
                                 applyWaveform(e.oscillators[i], clampedOpenness)]
                        ELSE @],
                 "setWaveformFromOpenness", <<openness>>, "ok")

\* Mutant: dispose() releases the nodes without calling stop() first.
dispose_WithoutStop(e) ==
    Log([e EXCEPT !.audioContext = "null", !.time = 0,
                  !.lfo = NullParam, !.lfoOffset = NullParam,
                  !.lfoGain = NullParam, !.gain = NullParam],
        "dispose", <<>>, "ok")

\* Mutant: the audio context and its nodes are kept.
dispose_KeepsContext(e) == Log(stop(e), "dispose", <<>>, "ok")

dispose(e) ==
    LET e1 == stop(e)
    IN  Log([e1 EXCEPT !.audioContext = "null", !.time = 0,
                       !.lfo = NullParam, !.lfoOffset = NullParam,
                       !.lfoGain = NullParam, !.gain = NullParam],
            "dispose", <<>>, "ok")

\* The audio clock reaching time now: the renderer recomputes every AudioParam.
RenderAt(e, now) ==
    [e EXCEPT !.time = now,
              !.gain = Render(@, now),
              !.lfoGain = Render(@, now),
              !.lfoOffset = Render(@, now),
              !.lfo = Render(@, now),
              !.oscillators = [i \in 1..Len(e.oscillators) |->
                  [e.oscillators[i] EXCEPT !.frequency = Render(@, now)]]]

(***************************************************************************)
(* The engine under any caller: one action per public method.  An action   *)
(* that schedules automation is taken only while no AudioParam holds more  *)
(* than MaxEvents events the renderer has not yet consumed.                *)
(***************************************************************************)
(***************************************************************************)
(* The App component (src/src/App.tsx).                                    *)
(*                                                                         *)
(* app holds the React state, the refs and the pending fade-in timer.  The *)
(* two debounce refs hold a Date.now() reading; the code only ever uses    *)
(* Date.now() - ref.current >= debounce, so the model keeps that           *)
(* difference, saturated at SinceCap (the refs start at 0, i.e. "long      *)
(* ago").  Positions are thousandths of the frame; NoPosition is the null  *)
(* of a hand that is not detected.  The effects that follow the hands'     *)
(* position (App.tsx 525-618) reach the filter and the LFO only; they are  *)
(* the next section.  results and delivered are history: the MediaPipe     *)
(* results of the frame the hand tracker processed last and the            *)
(* HandDetectionResult it handed to the App's callback for it.             *)
(*                                                                         *)
(* An effect is an operator on a world w = [s |-> engine, a |-> app] and   *)
(* the state r of the render it belongs to: it reads React state from r    *)
(* (its closure), reads and writes refs in w.a, calls the engine w.s and   *)
(* records its setState calls in w.a.                                      *)
(***************************************************************************)
NoPosition == -1

\* new HandTracker(): the fields of the object, beside them the number of
\* initialize() calls that are awaiting the import, where each frame loop
\* (a chain of processFrame calls) stands, and what is needed to state the
\* tracker's claims: stopped (stop() has returned and initialize() has not
\* been called since) and invoked (the last step called the results
\* callback).
MaxLoops == 2
MaxImports == 2

NewHandTracker ==
    [hands |-> "null", videoElement |-> FALSE, onResultsCallback |-> FALSE,
     animationFrameId |-> 0, isProcessing |-> FALSE,
     importing |-> 0, loops |-> [i \in 1..MaxLoops |-> "idle"],
     stopped |-> FALSE, invoked |-> FALSE]

NewApp ==
    [isPlaying |-> FALSE, isSynthInitialized |-> FALSE,
     leftHandCenterY |-> NoPosition, rightHandCenterY |-> NoPosition,
     rightHandCenterX |-> NoPosition,
     smoothedRightHandCenterY |-> 500, smoothedRightHandCenterX |-> 500,
     smoothedLeftHandCenterY |-> 500,
     leftHandDetected |-> FALSE, leftHandPinchDown |-> FALSE,
     leftHandPinchPinky |-> FALSE, leftHandPinchRing |-> FALSE,
     rightHandDetected |-> FALSE, rightHandPinchUp |-> FALSE,
     rightHandPinchPinky |-> FALSE,
     pitchMode |-> FALSE, rootMidi |-> 48, chordExtension |-> 7,
     chordQuality |-> "minor",
     previousRightPinchUp |-> FALSE, previousLeftPinchDown |-> FALSE,
     previousRightPinchPinky |-> FALSE, previousLeftPinchPinky |-> FALSE,
     previousLeftPinchRing |-> FALSE,
     sincePitchChange |-> SinceCap, sinceChordToggle |-> SinceCap,
     fadeInTimer |-> FALSE,
     results |-> <<>>, delivered |-> <<>>,
     handTracker |-> NewHandTracker]

\* The React state of the component (what a render closes over).
ReactState(a) ==
    <<a.isPlaying, a.isSynthInitialized, a.leftHandDetected, a.leftHandPinchDown,
      a.leftHandPinchPinky, a.leftHandPinchRing, a.rightHandDetected,
      a.rightHandPinchUp, a.rightHandPinchPinky, a.pitchMode, a.rootMidi,
      a.chordExtension, a.chordQuality, a.leftHandCenterY, a.rightHandCenterY,
      a.rightHandCenterX>>

\* Automatic play/stop from hand detection.
AutoPlayDeps(a) ==
    <<a.leftHandDetected, a.rightHandDetected, a.isSynthInitialized, a.isPlaying,
      a.rootMidi, a.chordExtension, a.chordQuality>>

\* Mutant: nothing is done when no hand is in view.
AutoPlayEffect_IgnoresAbsence(w, r) ==
    IF ~r.isSynthInitialized THEN w
    ELSE IF r.leftHandDetected \/ r.rightHandDetected
    THEN IF ~r.isPlaying
         THEN [s |-> start(setChord(w.s, r.rootMidi, r.chordExtension, r.chordQuality)),
               a |-> [w.a EXCEPT !.isPlaying = TRUE, !.fadeInTimer = TRUE]]
         ELSE [w EXCEPT !.s = fadeIn(w.s, <<>>)]
    ELSE w

AutoPlayEffect(w, r) ==
    IF ~r.isSynthInitialized THEN w
    ELSE IF r.leftHandDetected \/ r.rightHandDetected
    THEN IF ~r.isPlaying
         THEN [s |-> start(setChord(w.s, r.rootMidi, r.chordExtension, r.chordQuality)),
               a |-> [w.a EXCEPT !.isPlaying = TRUE, !.fadeInTimer = TRUE]]
         ELSE [w EXCEPT !.s = fadeIn(w.s, <<>>)]
    ELSE IF r.isPlaying THEN [w EXCEPT !.s = fadeOut(w.s, <<>>)] ELSE w

\* Mutant: the new root is not held inside [36, 84].
PitchStep_Unclamped(rootMidi, delta) == rootMidi + delta

\* Math.min(84, rootMidi + delta) going up, Math.max(36, rootMidi + delta) down.
PitchStep(rootMidi, delta) ==
    IF delta > 0 THEN Min(84, rootMidi + delta) ELSE Max(36, rootMidi + delta)

\* Mutant: the one-semitone branches keep the quality.
OtherQuality_Same(quality) == quality

OtherQuality(quality) == IF quality = "minor" THEN "major" ELSE "minor"

\* Mutant: the debounce never holds an action back.
CanAct_Always(since, debounce) == TRUE

\* now - last.current >= DEBOUNCE_MS
CanAct(since, debounce) == since >= debounce

\* Mutant: the one-semitone action is not gated off by the hand's pinky pinch.
OneSemitoneFires_Ungated(justActivated, canChangePitch, pinkyActive) ==
    justActivated /\ canChangePitch

\* xPinchJustActivated && canChangePitch && !xHandPinchPinky
OneSemitoneFires(justActivated, canChangePitch, pinkyActive) ==
    justActivated /\ canChangePitch /\ ~pinkyActive

\* Pitch control by pinch gestures of both hands.
PitchDeps(a) ==
    <<a.rightHandPinchUp, a.leftHandPinchDown, a.rightHandPinchPinky,
      a.leftHandPinchPinky, a.rightHandDetected, a.leftHandDetected, a.isPlaying,
      a.rootMidi, a.chordQuality>>

\* Mutant: the left hand's two-semitone gesture is tried first.
PitchEffect_LeftFirst(w, r) ==
    IF ~r.isPlaying THEN w
    ELSE
    LET canChangePitch == CanAct(w.a.sincePitchChange, PITCH_CHANGE_DEBOUNCE_MS)
        rightPinchUpJustActivated ==
            r.rightHandDetected /\ r.rightHandPinchUp /\ ~w.a.previousRightPinchUp
        leftPinchDownJustActivated ==
            r.leftHandDetected /\ r.leftHandPinchDown /\ ~w.a.previousLeftPinchDown
        rightPinchPinkyJustActivated ==
            r.rightHandDetected /\ r.rightHandPinchPinky /\ ~w.a.previousRightPinchPinky
        leftPinchPinkyJustActivated ==
            r.leftHandDetected /\ r.leftHandPinchPinky /\ ~w.a.previousLeftPinchPinky
        delta ==
            IF leftPinchPinkyJustActivated /\ canChangePitch THEN -2
            ELSE IF rightPinchPinkyJustActivated /\ canChangePitch THEN 2
            ELSE IF OneSemitoneFires(rightPinchUpJustActivated, canChangePitch,
                                     r.rightHandPinchPinky)
            THEN 1
            ELSE IF OneSemitoneFires(leftPinchDownJustActivated, canChangePitch,
                                     r.leftHandPinchPinky)
            THEN -1
            ELSE 0
        newRootMidi == PitchStep(r.rootMidi, delta)
        newQuality == IF delta \in {1, -1} THEN OtherQuality(r.chordQuality)
                      ELSE r.chordQuality
        s1 == IF delta = 0 THEN w.s
              ELSE setChord(w.s, newRootMidi, r.chordExtension, newQuality)
        a1 == IF delta = 0 THEN w.a
              ELSE [w.a EXCEPT !.rootMidi = newRootMidi, !.chordQuality = newQuality,
                               !.pitchMode = TRUE, !.sincePitchChange = 0]
        noPinch ==
            /\ ~r.rightHandDetected \/ (~r.rightHandPinchUp /\ ~r.rightHandPinchPinky)
            /\ ~r.leftHandDetected \/ (~r.leftHandPinchDown /\ ~r.leftHandPinchPinky)
    IN  [s |-> s1,
         a |-> [a1 EXCEPT
                  !.previousRightPinchUp = r.rightHandDetected /\ r.rightHandPinchUp,
                  !.previousLeftPinchDown = r.leftHandDetected /\ r.leftHandPinchDown,
                  !.previousRightPinchPinky = r.rightHandDetected /\ r.rightHandPinchPinky,
                  !.previousLeftPinchPinky = r.leftHandDetected /\ r.leftHandPinchPinky,
                  !.pitchMode = IF noPinch THEN FALSE ELSE @]]

PitchEffect(w, r) ==
    IF ~r.isPlaying THEN w
    ELSE
    LET canChangePitch == CanAct(w.a.sincePitchChange, PITCH_CHANGE_DEBOUNCE_MS)
        rightPinchUpJustActivated ==
            r.rightHandDetected /\ r.rightHandPinchUp /\ ~w.a.previousRightPinchUp
        leftPinchDownJustActivated ==
            r.leftHandDetected /\ r.leftHandPinchDown /\ ~w.a.previousLeftPinchDown
        rightPinchPinkyJustActivated ==
            r.rightHandDetected /\ r.rightHandPinchPinky /\ ~w.a.previousRightPinchPinky
        leftPinchPinkyJustActivated ==
            r.leftHandDetected /\ r.leftHandPinchPinky /\ ~w.a.previousLeftPinchPinky
        delta ==
            IF rightPinchPinkyJustActivated /\ canChangePitch THEN 2
            ELSE IF leftPinchPinkyJustActivated /\ canChangePitch THEN -2
            ELSE IF OneSemitoneFires(rightPinchUpJustActivated, canChangePitch,
                                     r.rightHandPinchPinky)
            THEN 1
            ELSE IF OneSemitoneFires(leftPinchDownJustActivated, canChangePitch,
                                     r.leftHandPinchPinky)
            THEN -1
            ELSE 0
        newRootMidi == PitchStep(r.rootMidi, delta)
        newQuality == IF delta \in {1, -1} THEN OtherQuality(r.chordQuality)
                      ELSE r.chordQuality
        s1 == IF delta = 0 THEN w.s
              ELSE setChord(w.s, newRootMidi, r.chordExtension, newQuality)
        a1 == IF delta = 0 THEN w.a
              ELSE [w.a EXCEPT !.rootMidi = newRootMidi, !.chordQuality = newQuality,
                               !.pitchMode = TRUE, !.sincePitchChange = 0]
        noPinch ==
            /\ ~r.rightHandDetected \/ (~r.rightHandPinchUp /\ ~r.rightHandPinchPinky)
            /\ ~r.leftHandDetected \/ (~r.leftHandPinchDown /\ ~r.leftHandPinchPinky)
    IN  [s |-> s1,
         a |-> [a1 EXCEPT
                  !.previousRightPinchUp = r.rightHandDetected /\ r.rightHandPinchUp,
                  !.previousLeftPinchDown = r.leftHandDetected /\ r.leftHandPinchDown,
                  !.previousRightPinchPinky = r.rightHandDetected /\ r.rightHandPinchPinky,
                  !.previousLeftPinchPinky = r.leftHandDetected /\ r.leftHandPinchPinky,
                  !.pitchMode = IF noPinch THEN FALSE ELSE @]]

\* Chord extension toggle by the left hand's thumb-ring pinch.
ChordToggleDeps(a) ==
    <<a.leftHandPinchRing, a.leftHandDetected, a.isPlaying, a.chordExtension,
      a.rootMidi, a.chordQuality>>

\* Mutant: the toggle is debounced on the pitch timer.
ChordToggleEffect_PitchTimer(w, r) ==
    IF ~r.isPlaying THEN w
    ELSE
    LET canToggleChord == CanAct(w.a.sincePitchChange, CHORD_TOGGLE_DEBOUNCE_MS)
        leftPinchRingJustActivated ==
            r.leftHandDetected /\ r.leftHandPinchRing /\ ~w.a.previousLeftPinchRing
        toggle == leftPinchRingJustActivated /\ canToggleChord
        newExtension == IF r.chordExtension = 7 THEN 9 ELSE 7
        s1 == IF toggle THEN setChord(w.s, r.rootMidi, newExtension, r.chordQuality)
              ELSE w.s
        a1 == IF toggle
              THEN [w.a EXCEPT !.chordExtension = newExtension, !.sincePitchChange = 0]
              ELSE w.a
    IN  [s |-> s1,
         a |-> [a1 EXCEPT
                  !.previousLeftPinchRing = r.leftHandDetected /\ r.leftHandPinchRing]]

\* Mutant: a ring pinch that arrives inside the debounce window is kept for
\* later: the previous-state flag is only updated once the timer allows.
ChordToggleEffect_Deferred(w, r) ==
    IF ~r.isPlaying THEN w
    ELSE
    LET canToggleChord == CanAct(w.a.sinceChordToggle, CHORD_TOGGLE_DEBOUNCE_MS)
        leftPinchRingJustActivated ==
            r.leftHandDetected /\ r.leftHandPinchRing /\ ~w.a.previousLeftPinchRing
        toggle == leftPinchRingJustActivated /\ canToggleChord
        newExtension == IF r.chordExtension = 7 THEN 9 ELSE 7
        s1 == IF toggle THEN setChord(w.s, r.rootMidi, newExtension, r.chordQuality)
              ELSE w.s
        a1 == IF toggle
              THEN [w.a EXCEPT !.chordExtension = newExtension, !.sinceChordToggle = 0]
              ELSE w.a
    IN  [s |-> s1,
         a |-> IF leftPinchRingJustActivated /\ ~canToggleChord THEN a1
               ELSE [a1 EXCEPT !.previousLeftPinchRing =
                                   r.leftHandDetected /\ r.leftHandPinchRing]]

ChordToggleEffect(w, r) ==
    IF ~r.isPlaying THEN w
    ELSE
    LET canToggleChord == CanAct(w.a.sinceChordToggle, CHORD_TOGGLE_DEBOUNCE_MS)
        leftPinchRingJustActivated ==
            r.leftHandDetected /\ r.leftHandPinchRing /\ ~w.a.previousLeftPinchRing
        toggle == leftPinchRingJustActivated /\ canToggleChord
        newExtension == IF r.chordExtension = 7 THEN 9 ELSE 7
        s1 == IF toggle THEN setChord(w.s, r.rootMidi, newExtension, r.chordQuality)
              ELSE w.s
        a1 == IF toggle
              THEN [w.a EXCEPT !.chordExtension = newExtension, !.sinceChordToggle = 0]
              ELSE w.a
    IN  [s |-> s1,
         a |-> [a1 EXCEPT
                  !.previousLeftPinchRing = r.leftHandDetected /\ r.leftHandPinchRing]]

\* One commit: the effects whose dependencies changed since the previous
\* render run in the order the component defines them, all on the state r
\* of this render.
RunEffects(w, old) ==
    LET r == w.a
        w1 == IF AutoPlayDeps(r) # AutoPlayDeps(old) THEN AutoPlayEffect(w, r) ELSE w
        w2 == IF PitchDeps(r) # PitchDeps(old) THEN PitchEffect(w1, r) ELSE w1
    IN  IF ChordToggleDeps(r) # ChordToggleDeps(old) THEN ChordToggleEffect(w2, r)
        ELSE w2

\* Render after a state change, and again for as long as the effects
\* themselves set state.
RECURSIVE Commit(_, _, _)
Commit(w, old, renders) ==
    LET r == w.a
        after == RunEffects(w, old)
    IN  IF renders = 0 \/ ReactState(after.a) = ReactState(r) THEN after
        ELSE Commit(after, r, renders - 1)

(***************************************************************************)
(* The effects that follow the hands' position (App.tsx 525-618).          *)
(* Positions and the smoothed refs are thousandths of the frame.  The two  *)
(* exponential maps are tabulated at tenths of the frame, the smoothed     *)
(* position rounded down to one.                                           *)
(***************************************************************************)
\* ref * smoothingFactor + value * (1 - smoothingFactor), smoothingFactor 0.85
Smooth(smoothed, value) == (smoothed * 85 + value * 15) \div 100

\* 300 * Math.pow(8000 / 300, 1 - normalizedY), in Hz
CutoffTable == <<8000, 5761, 4149, 2987, 2151, 1549, 1116, 803, 579, 417, 300>>

CutoffFromY(normalizedY) == CutoffTable[normalizedY \div 100 + 1]

\* 1 * Math.pow(1000 / 1, normalizedX), in tenths of a Hz
RateTable == <<10, 20, 40, 79, 158, 316, 631, 1259, 2512, 5012, 10000>>

RateFromX(normalizedX) == RateTable[normalizedX \div 100 + 1]

\* maxDepth - normalizedY * (maxDepth - minDepth), in percent
DepthFromY(normalizedY) == 100 - (normalizedY * 90) \div 1000

\* Mutant: the cutoff follows the right hand during a one-semitone pinch too.
CutoffFollowsHand_Always(rightHandPinchUp, leftHandPinchDown) == TRUE

\* if (!rightHandPinchUp && !leftHandPinchDown)
CutoffFollowsHand(rightHandPinchUp, leftHandPinchDown) ==
    ~rightHandPinchUp /\ ~leftHandPinchDown

\* if (!leftHandPinchDown && !leftHandPinchPinky && !leftHandPinchRing)
DepthFollowsHand(leftHandPinchDown, leftHandPinchPinky, leftHandPinchRing) ==
    ~leftHandPinchDown /\ ~leftHandPinchPinky /\ ~leftHandPinchRing

\* Right hand: LFO rate and max filter cutoff.
RightHandDeps(a) ==
    <<a.rightHandDetected, a.rightHandCenterY, a.rightHandCenterX, a.isPlaying,
      a.pitchMode>>

\* Mutant: with no right hand the last rate and cutoff are held.
RightHandEffect_HoldsLast(w, r) ==
    IF ~r.isPlaying THEN w
    ELSE IF /\ r.rightHandDetected
            /\ r.rightHandCenterY # NoPosition
            /\ r.rightHandCenterX # NoPosition
    THEN LET smoothedY == Smooth(w.a.smoothedRightHandCenterY, r.rightHandCenterY)
             smoothedX == Smooth(w.a.smoothedRightHandCenterX, r.rightHandCenterX)
             s1 == IF CutoffFollowsHand(r.rightHandPinchUp, r.leftHandPinchDown)
                   THEN setMaxFilterCutoff(w.s, CutoffFromY(smoothedY))
                   ELSE w.s
         IN  [s |-> setLfoRate(s1, RateFromX(smoothedX)),
              a |-> [w.a EXCEPT !.smoothedRightHandCenterY = smoothedY,
                                !.smoothedRightHandCenterX = smoothedX]]
    ELSE w

RightHandEffect(w, r) ==
    IF ~r.isPlaying THEN w
    ELSE IF /\ r.rightHandDetected
            /\ r.rightHandCenterY # NoPosition
            /\ r.rightHandCenterX # NoPosition
    THEN LET smoothedY == Smooth(w.a.smoothedRightHandCenterY, r.rightHandCenterY)
             smoothedX == Smooth(w.a.smoothedRightHandCenterX, r.rightHandCenterX)
             s1 == IF CutoffFollowsHand(r.rightHandPinchUp, r.leftHandPinchDown)
                   THEN setMaxFilterCutoff(w.s, CutoffFromY(smoothedY))
                   ELSE w.s
         IN  [s |-> setLfoRate(s1, RateFromX(smoothedX)),
              a |-> [w.a EXCEPT !.smoothedRightHandCenterY = smoothedY,
                                !.smoothedRightHandCenterX = smoothedX]]
    ELSE [w EXCEPT !.s = setMaxFilterCutoff(setLfoRate(w.s, 2), 1000)]

\* Left hand: LFO depth.
LeftHandDeps(a) ==
    <<a.leftHandDetected, a.leftHandCenterY, a.isPlaying, a.leftHandPinchDown,
      a.leftHandPinchPinky, a.leftHandPinchRing>>

LeftHandEffect(w, r) ==
    IF ~r.isPlaying THEN w
    ELSE IF r.leftHandDetected /\ r.leftHandCenterY # NoPosition
    THEN IF DepthFollowsHand(r.leftHandPinchDown, r.leftHandPinchPinky,
                             r.leftHandPinchRing)
         THEN LET smoothedY == Smooth(w.a.smoothedLeftHandCenterY, r.leftHandCenterY)
              IN  [s |-> setLfoDepth(w.s, DepthFromY(smoothedY)),
                   a |-> [w.a EXCEPT !.smoothedLeftHandCenterY = smoothedY]]
         ELSE w
    ELSE [w EXCEPT !.s = setLfoDepth(w.s, 100)]

\* One commit of the whole component: the play/stop, pitch and extension
\* effects, then the right-hand and the left-hand effect, all on the state
\* r of this render.  Each intermediate world is bound as the one element
\* of a set, so that it is computed once.
RunAllEffects(w, old) ==
    LET r == w.a
    IN  CHOOSE w5 \in
            {IF LeftHandDeps(r) # LeftHandDeps(old) THEN LeftHandEffect(w4, r) ELSE w4 :
                 w4 \in {IF RightHandDeps(r) # RightHandDeps(old)
                         THEN RightHandEffect(w3, r) ELSE w3 :
                             w3 \in {RunEffects(w, old)}}} : TRUE

RECURSIVE CommitAll(_, _, _)
CommitAll(w, old, renders) ==
    CHOOSE done \in
        {IF renders = 0 \/ ReactState(after.a) = ReactState(w.a) THEN after
         ELSE CommitAll(after, w.a, renders - 1) :
             after \in {RunAllEffects(w, old)}} : TRUE

Params(e) == {e.gain, e.lfoGain, e.lfoOffset, e.lfo}
                 \cup {e.oscillators[i].frequency : i \in 1..Len(e.oscillators)}

Bounded(e) == \A p \in Params(e) : Len(p.events) <= MaxEvents

Init == synth = NewSynthEngine /\ app = NewApp

Initialize == synth' = initialize(ClearLog(synth)) /\ UNCHANGED app

Start == synth' = start(ClearLog(synth)) /\ UNCHANGED app

Stop == synth' = stop(ClearLog(synth)) /\ UNCHANGED app

Dispose == synth' = dispose(ClearLog(synth)) /\ UNCHANGED app

SetChord(root, extension, quality) ==
    /\ synth' = setChord(ClearLog(synth), root, extension, quality)
    /\ Bounded(synth')
    /\ UNCHANGED app

SetChordExtension(extension) ==
    /\ synth' = setChordExtension(ClearLog(synth), extension)
    /\ Bounded(synth')
    /\ UNCHANGED app

SetChordQuality(quality) ==
    /\ synth' = setChordQuality(ClearLog(synth), quality)
    /\ Bounded(synth')
    /\ UNCHANGED app

SetWaveformFromOpenness(openness) ==
    /\ synth' = setWaveformFromOpenness(ClearLog(synth), openness)
    /\ UNCHANGED app

FadeOut(duration) == synth' = fadeOut(ClearLog(synth), duration) /\ UNCHANGED app

FadeIn(duration) == synth' = fadeIn(ClearLog(synth), duration) /\ UNCHANGED app

\* A caller freezing and unfreezing back to back, no audio time in between.
FadeOutThenFadeIn(out, in) ==
    /\ synth' = fadeIn(fadeOut(ClearLog(synth), out), in)
    /\ UNCHANGED app

SetMaxFilterCutoff(cutoff) ==
    /\ synth' = setMaxFilterCutoff(ClearLog(synth), cutoff)
    /\ Bounded(synth')
    /\ UNCHANGED app

SetLfoRate(rate) ==
    /\ synth' = setLfoRate(ClearLog(synth), rate)
    /\ Bounded(synth')
    /\ UNCHANGED app

SetLfoDepth(depth) ==
    /\ synth' = setLfoDepth(ClearLog(synth), depth)
    /\ Bounded(synth')
    /\ UNCHANGED app

AdvanceTime(dt) ==
    /\ synth.audioContext = "running"
    /\ synth.time + dt <= MaxTime
    /\ synth' = RenderAt(ClearLog(synth), synth.time + dt)
    /\ UNCHANGED app

\* A caller (the spectrum display) reads the instantaneous cutoff.
GetActualFilterFrequency ==
    /\ synth' = Log(ClearLog(synth), "getActualFilterFrequency", <<>>,
                    getActualFilterFrequency(synth, synth.time))
    /\ UNCHANGED app

\* The Start/Stop button.
StartStopPressed ==
    IF app.isSynthInitialized
    THEN [s |-> [NewSynthEngine EXCEPT
                   !.log = dispose(stop(ClearLog(synth))).log],
          a |-> [app EXCEPT !.isPlaying = FALSE,
                            !.isSynthInitialized = FALSE,
                            !.fadeInTimer = FALSE]]
    ELSE [s |-> initialize(ClearLog(synth)),
          a |-> [app EXCEPT !.isSynthInitialized = TRUE]]

handleStartStop ==
    LET after == Commit(StartStopPressed, app, MaxRenders)
    IN  synth' = after.s /\ app' = after.a

\* The hand tracker delivers a detection result: the callback stores it in
\* React state (pinches of an undetected hand are stored as false) and the
\* component re-renders.
HandsCallback(a, result) ==
    LET l == result.leftHand
        r == result.rightHand
    IN  [a EXCEPT
           !.leftHandDetected = l.detected,
           !.leftHandCenterY = IF l.detected THEN l.centerY ELSE NoPosition,
           !.leftHandPinchDown = l.detected /\ l.pinchUp,
           !.leftHandPinchPinky = l.detected /\ l.pinchPinky,
           !.leftHandPinchRing = l.detected /\ l.pinchRing,
           !.rightHandDetected = r.detected,
           !.rightHandCenterY = IF r.detected THEN r.centerY ELSE NoPosition,
           !.rightHandCenterX = IF r.detected THEN r.centerX ELSE NoPosition,
           !.rightHandPinchUp = r.detected /\ r.pinchUp,
           !.rightHandPinchPinky = r.detected /\ r.pinchPinky]

HandFrame(result) ==
    LET w == [s |-> ClearLog(synth), a |-> HandsCallback(app, result)]
        after == Commit(w, app, MaxRenders)
    IN  synth' = after.s /\ app' = after.a

\* setTimeout(() => synth.fadeIn(), 10) of the auto-play effect fires.
FadeInTimer ==
    /\ app.fadeInTimer
    /\ synth' = fadeIn(ClearLog(synth), <<>>)
    /\ app' = [app EXCEPT !.fadeInTimer = FALSE]

\* dt milliseconds pass (a pending 10 ms timer fires first): Date.now()
\* moves on and so does the clock of a running audio context.
Tick(dt) ==
    /\ ~app.fadeInTimer
    /\ synth.audioContext = "running" => synth.time + dt \div 50 <= MaxTime
    /\ app' = [app EXCEPT !.sincePitchChange = Min(SinceCap, @ + dt),
                          !.sinceChordToggle = Min(SinceCap, @ + dt)]
    /\ synth' = IF synth.audioContext = "running"
                THEN RenderAt(ClearLog(synth), synth.time + dt \div 50)
                ELSE ClearLog(synth)

(***************************************************************************)
(* Spec: the voice bank.  Lifecycle, chord, waveform and fade calls in any *)
(* order, with arguments on both sides of every clamp and threshold.       *)
(***************************************************************************)
RootArgs == {30, 48, 90}
ExtensionArgs == {7, 9}
QualityArgs == {"minor", "major"}
OpennessArgs == {0, 500}
DurationArgs == {<<>>, <<1>>}

Next ==
    \/ Initialize
    \/ Start
    \/ Stop
    \/ Dispose
    \/ \E r \in RootArgs, x \in ExtensionArgs, q \in QualityArgs : SetChord(r, x, q)
    \/ \E o \in OpennessArgs : SetWaveformFromOpenness(o)
    \/ \E d \in DurationArgs : FadeOut(d)
    \/ \E d \in DurationArgs : FadeIn(d)

Spec == Init /\ [][Next]_vars

(***************************************************************************)
(* ModSpec: the fades and the filter modulation.  The engine starts        *)
(* constructed and configured (the setters store their value before        *)
(* initialize() as well); fades and the cutoff / depth setters then run in *)
(* any order while the audio clock advances.                               *)
(***************************************************************************)
ConfiguredCutoffs == {1000, 8000}
ConfiguredDepths == {50, 100}
CutoffArgs == {1000}
DepthArgs == {100}
TimeSteps == {30}

InitMod ==
    /\ app = NewApp
    /\ synth \in {ClearLog(setLfoDepth(setMaxFilterCutoff(NewSynthEngine, c), d)) :
                  c \in ConfiguredCutoffs, d \in ConfiguredDepths}

NextMod ==
    \/ Initialize
    \/ Dispose
    \/ \E d \in DurationArgs : FadeOut(d)
    \/ \E d \in DurationArgs : FadeIn(d)
    \/ \E out \in DurationArgs, in \in DurationArgs : FadeOutThenFadeIn(out, in)
    \/ \E c \in CutoffArgs : SetMaxFilterCutoff(c)
    \/ \E d \in DepthArgs : SetLfoDepth(d)
    \/ \E dt \in TimeSteps : AdvanceTime(dt)

ModSpec == InitMod /\ [][NextMod]_vars

(***************************************************************************)
(* FreezeSpec: the frozen modulation under the setters.  Default-length    *)
(* fades interleaved with the setter calls the mapper makes when a hand is *)
(* undetected (setLfoRate(0.2), setMaxFilterCutoff(1000),                  *)
(* setLfoDepth(1.0)) and a chord change.                                   *)
(***************************************************************************)
RateArgs == {2}
FreezeChordArgs == {<<50, 9, "major">>}
FreezeDurationArgs == {<<>>}

NextFreeze ==
    \/ Initialize
    \/ \E d \in FreezeDurationArgs : FadeOut(d)
    \/ \E d \in FreezeDurationArgs : FadeIn(d)
    \/ \E c \in CutoffArgs : SetMaxFilterCutoff(c)
    \/ \E r \in RateArgs : SetLfoRate(r)
    \/ \E d \in DepthArgs : SetLfoDepth(d)
    \/ \E c \in FreezeChordArgs : SetChord(c[1], c[2], c[3])
    \/ \E dt \in TimeSteps : AdvanceTime(dt)

FreezeSpec == Init /\ [][NextFreeze]_vars

(***************************************************************************)
(* ChordSpec: the chord tables.  The engine starts initialized on any      *)
(* chord setChord can store (every root of [36, 84], both extensions, both *)
(* qualities); it is started and stopped and its extension and quality are *)
(* switched.                                                               *)
(***************************************************************************)
InitChord ==
    /\ app = NewApp
    /\ synth \in {ClearLog(initialize(setChord(NewSynthEngine, r, x, q))) :
                  r \in MinRoot..MaxRoot, x \in ExtensionArgs, q \in QualityArgs}

NextChord ==
    \/ Start
    \/ Stop
    \/ \E x \in ExtensionArgs : SetChordExtension(x)
    \/ \E q \in QualityArgs : SetChordQuality(q)

ChordSpec == InitChord /\ [][NextChord]_vars

(***************************************************************************)
(* PitchSpec: the pitch gestures.  The App is started and stopped, one     *)
(* hand or the other is in view, pinches and releases, and time passes in  *)
(* steps longer than the debounce.  Beside the App, a caller asks the      *)
(* engine for roots outside [36, 84] while the App has not initialized it. *)
(***************************************************************************)
Hand(detected, pinchUp, pinchPinky, pinchRing) ==
    [detected |-> detected, centerY |-> 500, centerX |-> 500,
     pinchUp |-> pinchUp, pinchPinky |-> pinchPinky, pinchRing |-> pinchRing]

NoHand == Hand(FALSE, FALSE, FALSE, FALSE)
OpenHand == Hand(TRUE, FALSE, FALSE, FALSE)
IndexPinch == Hand(TRUE, TRUE, FALSE, FALSE)
PinkyPinch == Hand(TRUE, FALSE, TRUE, FALSE)
BothPinches == Hand(TRUE, TRUE, TRUE, FALSE)

PitchResults ==
    {[leftHand |-> NoHand, rightHand |-> OpenHand],
     [leftHand |-> NoHand, rightHand |-> IndexPinch],
     [leftHand |-> NoHand, rightHand |-> PinkyPinch],
     [leftHand |-> NoHand, rightHand |-> BothPinches],
     [leftHand |-> IndexPinch, rightHand |-> NoHand],
     [leftHand |-> PinkyPinch, rightHand |-> NoHand]}

OutOfRangeChords == {<<30, 7, "minor">>, <<90, 7, "minor">>}
WallSteps == {1500}

RequestRoot(root, extension, quality) ==
    /\ ~app.isSynthInitialized
    /\ synth' = setChord(ClearLog(synth), root, extension, quality)
    /\ UNCHANGED app

NextPitch ==
    \/ handleStartStop
    \/ \E result \in PitchResults : HandFrame(result)
    \/ FadeInTimer
    \/ \E dt \in WallSteps : Tick(dt)
    \/ \E c \in OutOfRangeChords : RequestRoot(c[1], c[2], c[3])

PitchSpec == Init /\ [][NextPitch]_vars

(***************************************************************************)
(* RangeSpec: the filter-modulation setters with requests below and above  *)
(* every documented range (the defaults lie inside), on an engine that is  *)
(* initialized, disposed and initialized again; the LFO rates include      *)
(* 1000 Hz, the top of the mapper's request range.                         *)
(***************************************************************************)
RangeCutoffArgs == {0, 25000}
RangeRateArgs == {0, 10000}
RangeDepthArgs == {0, 150}

NextRange ==
    \/ Initialize
    \/ Dispose
    \/ \E c \in RangeCutoffArgs : SetMaxFilterCutoff(c)
    \/ \E r \in RangeRateArgs : SetLfoRate(r)
    \/ \E d \in RangeDepthArgs : SetLfoDepth(d)
    \/ \E dt \in TimeSteps : AdvanceTime(dt)

RangeSpec == Init /\ [][NextRange]_vars

(***************************************************************************)
(* PhaseSpec: the reported cutoff.  The engine starts initialized on a     *)
(* stored maxCutoff (both ends of its range, odd and even values), LFO     *)
(* depth and LFO rate; the audio clock advances tick by tick through the   *)
(* LFO's cycle and the cutoff is read at any time.                         *)
(***************************************************************************)
PhaseCutoffs == {400, 401, 1000, 8000, 20000}
PhaseDepths == {10, 33, 100}
PhaseRates == {2, 10, 70}
PhaseSteps == {1}

InitPhase ==
    /\ app = NewApp
    /\ synth \in {ClearLog(setLfoRate(initialize(
                      setLfoDepth(setMaxFilterCutoff(NewSynthEngine, c), d)), r)) :
                  c \in PhaseCutoffs, d \in PhaseDepths, r \in PhaseRates}

NextPhase ==
    \/ GetActualFilterFrequency
    \/ \E dt \in PhaseSteps : AdvanceTime(dt)

PhaseSpec == InitPhase /\ [][NextPhase]_vars

(***************************************************************************)
(* GestureSpec: rising edges and debounce.  Hands show pinches (pitch and  *)
(* ring pinches, one or both hands) before and after the Start button is   *)
(* pressed; the App is started and not stopped again; time passes in steps *)
(* of 200 ms and 300 ms, so that an action is tried before, exactly at and *)
(* after each debounce delay, during the first GestureLife ticks of the    *)
(* audio clock.                                                            *)
(***************************************************************************)
GestureLife == 12

RingPinch == Hand(TRUE, FALSE, FALSE, TRUE)

GestureResults ==
    {[leftHand |-> NoHand, rightHand |-> OpenHand],
     [leftHand |-> NoHand, rightHand |-> PinkyPinch],
     [leftHand |-> NoHand, rightHand |-> IndexPinch],
     [leftHand |-> NoHand, rightHand |-> BothPinches],
     [leftHand |-> RingPinch, rightHand |-> OpenHand],
     [leftHand |-> RingPinch, rightHand |-> PinkyPinch],
     [leftHand |-> PinkyPinch, rightHand |-> NoHand],
     [leftHand |-> BothPinches, rightHand |-> NoHand]}

GestureSteps == {200, 300}

StartButton == ~app.isSynthInitialized /\ handleStartStop

GestureTick(dt) == synth.time + dt \div 50 <= GestureLife /\ Tick(dt)

NextGesture ==
    \/ StartButton
    \/ \E result \in GestureResults : HandFrame(result)
    \/ FadeInTimer
    \/ \E dt \in GestureSteps : GestureTick(dt)

GestureSpec == Init /\ [][NextGesture]_vars

(***************************************************************************)
(* PresenceSpec: hands entering and leaving the camera's view.  The App is *)
(* started and stopped with the button; the tracker reports no hand, one   *)
(* hand or both; the pending 10 ms fade-in timer fires before or after the *)
(* next result; time passes in steps shorter than a fade, during the first *)
(* PresenceLife ticks of the audio clock.                                  *)
(***************************************************************************)
PresenceLife == 30

PresenceResults ==
    {[leftHand |-> NoHand, rightHand |-> NoHand],
     [leftHand |-> NoHand, rightHand |-> OpenHand],
     [leftHand |-> OpenHand, rightHand |-> NoHand],
     [leftHand |-> OpenHand, rightHand |-> OpenHand]}

PresenceSteps == {250, 500}

PresenceTick(dt) == synth.time + dt \div 50 <= PresenceLife /\ Tick(dt)

NextPresence ==
    \/ handleStartStop
    \/ \E result \in PresenceResults : HandFrame(result)
    \/ FadeInTimer
    \/ \E dt \in PresenceSteps : PresenceTick(dt)

PresenceSpec == Init /\ [][NextPresence]_vars

(***************************************************************************)
(* ControlSpec: the whole component, position effects included, while at  *)
(* least one hand is in view.  The button starts the App; one hand or both *)
(* move between the corners of the frame and pinch while they move; time   *)
(* passes in steps of 100 ms during the first ControlLife ticks of the     *)
(* audio clock.  A step is taken while no AudioParam holds more than       *)
(* ControlEvents events the renderer has not yet consumed.                 *)
(***************************************************************************)
ControlLife == 2

ControlEvents == 3

At(hand, x, y) == [hand EXCEPT !.centerX = x, !.centerY = y]

ControlResults ==
    {[leftHand |-> NoHand, rightHand |-> At(OpenHand, 0, 0)],
     [leftHand |-> NoHand, rightHand |-> At(OpenHand, 1000, 1000)],
     [leftHand |-> NoHand, rightHand |-> At(IndexPinch, 0, 0)],
     [leftHand |-> At(OpenHand, 500, 0), rightHand |-> NoHand],
     [leftHand |-> At(OpenHand, 500, 1000), rightHand |-> At(OpenHand, 0, 0)],
     [leftHand |-> At(IndexPinch, 500, 0), rightHand |-> At(OpenHand, 1000, 1000)],
     [leftHand |-> At(PinkyPinch, 500, 0), rightHand |-> NoHand],
     [leftHand |-> At(RingPinch, 500, 1000), rightHand |-> NoHand]}

ControlSteps == {100}

WithinControlEvents(e) == \A p \in Params(e) : Len(p.events) <= ControlEvents

\* The Start/Stop button, with every effect of the component.
PressStartStop ==
    \E pressed \in {StartStopPressed} :
        \E after \in {CommitAll(pressed, app, MaxRenders)} :
            synth' = after.s /\ app' = after.a /\ WithinControlEvents(synth')

\* A detection result, with every effect of the component.
TrackedFrame(result) ==
    \E w \in {[s |-> ClearLog(synth), a |-> HandsCallback(app, result)]} :
        \E after \in {CommitAll(w, app, MaxRenders)} :
            synth' = after.s /\ app' = after.a /\ WithinControlEvents(synth')

StartPressed == ~app.isSynthInitialized /\ PressStartStop

ControlTick(dt) == synth.time + dt \div 50 <= ControlLife /\ Tick(dt)

NextControl ==
    \/ StartPressed
    \/ \E result \in ControlResults : TrackedFrame(result)
    \/ FadeInTimer
    \/ \E dt \in ControlSteps : ControlTick(dt)

ControlSpec == Init /\ [][NextControl]_vars

(***************************************************************************)
(* DefaultsSpec: the whole component while hands enter and leave the view. *)
(* The button starts and stops the App; the tracker reports no hand, one   *)
(* hand or both, open, at the centre of the frame; time passes as in       *)
(* ControlSpec.                                                            *)
(***************************************************************************)
DefaultsResults ==
    {[leftHand |-> NoHand, rightHand |-> NoHand],
     [leftHand |-> NoHand, rightHand |-> OpenHand],
     [leftHand |-> OpenHand, rightHand |-> NoHand],
     [leftHand |-> OpenHand, rightHand |-> OpenHand]}

NextDefaults ==
    \/ PressStartStop
    \/ \E result \in DefaultsResults : TrackedFrame(result)
    \/ FadeInTimer
    \/ \E dt \in ControlSteps : ControlTick(dt)

DefaultsSpec == Init /\ [][NextDefaults]_vars

(***************************************************************************)
(* The hand tracker (HandTracker.processHand, processResults) and          *)
(* TrackerSpec.  A frame of MediaPipe results is a sequence of at most two *)
(* hands.  A hand is                                                       *)
(*   count         landmarks.length (0 also stands for a null array)       *)
(*   absent        the indices below count whose landmark is undefined     *)
(*   categoryName  multiHandedness[index].categoryName, "none" if missing  *)
(*   wristX        landmarks[0].x, thousandths of the frame                *)
(*   centerY, centerX                                                      *)
(*                 the centre its palm landmarks average to                *)
(*   thumbIndex, thumbPinky, thumbRing                                     *)
(*                 fingertip distances, thousandths of the frame           *)
(* The tracker has been initialized: the App's callback is registered.     *)
(***************************************************************************)
defaultHand ==
    [detected |-> FALSE, centerY |-> 500, centerX |-> 500,
     pinchUp |-> FALSE, pinchPinky |-> FALSE, pinchRing |-> FALSE]

requiredIndices == {0, 4, 5, 8, 9, 12, 13, 16, 17, 20}

pinchThreshold == 30

\* Mutant: a hand with missing landmarks is measured like a complete one.
processHand_Unvalidated(landmarks) ==
    [detected |-> TRUE,
     centerY |-> landmarks.centerY, centerX |-> landmarks.centerX,
     pinchUp |-> landmarks.thumbIndex < pinchThreshold,
     pinchPinky |-> landmarks.thumbPinky < pinchThreshold,
     pinchRing |-> landmarks.thumbRing < pinchThreshold]

processHand(landmarks) ==
    IF landmarks.count < 21 THEN defaultHand
    ELSE IF requiredIndices \cap landmarks.absent # {} THEN defaultHand
    ELSE [detected |-> TRUE,
          centerY |-> landmarks.centerY, centerX |-> landmarks.centerX,
          pinchUp |-> landmarks.thumbIndex < pinchThreshold,
          pinchPinky |-> landmarks.thumbPinky < pinchThreshold,
          pinchRing |-> landmarks.thumbRing < pinchThreshold]

\* !landmarks || landmarks.length === 0 || !landmarks[0]
Skipped(landmarks) == landmarks.count = 0 \/ 0 \in landmarks.absent

\* categoryName.toLowerCase().includes('right'), else wristX < 0.5
IsRight(landmarks) ==
    IF landmarks.categoryName # "none" THEN landmarks.categoryName = "Right"
    ELSE landmarks.wristX < 500

\* multiHandLandmarks.forEach: a later hand of the same side replaces an
\* earlier one.
RECURSIVE AssignHands(_, _)
AssignHands(hands, result) ==
    IF hands = <<>> THEN result
    ELSE LET landmarks == Head(hands)
             next == IF Skipped(landmarks) THEN result
                     ELSE IF IsRight(landmarks)
                     THEN [result EXCEPT !.rightHand = processHand(landmarks)]
                     ELSE [result EXCEPT !.leftHand = processHand(landmarks)]
         IN  AssignHands(Tail(hands), next)

\* The HandDetectionResult processResults hands to the callback.
processResults(results) ==
    AssignHands(results, [leftHand |-> defaultHand, rightHand |-> defaultHand])

CompleteHand == [count |-> 21, absent |-> {}]

TrackerLandmarks ==
    {CompleteHand,
     [count |-> 20, absent |-> {}],
     [count |-> 21, absent |-> {0}],
     [count |-> 21, absent |-> {20}],
     [count |-> 21, absent |-> {9}]}

TrackerHandedness ==
    {[categoryName |-> "Right", wristX |-> 700],
     [categoryName |-> "Left", wristX |-> 300],
     [categoryName |-> "none", wristX |-> 300],
     [categoryName |-> "none", wristX |-> 700]}

TrackerPoses ==
    {[centerY |-> 200, centerX |-> 800, thumbIndex |-> 20, thumbPinky |-> 100,
      thumbRing |-> 30],
     [centerY |-> 500, centerX |-> 500, thumbIndex |-> 100, thumbPinky |-> 29,
      thumbRing |-> 10]}

\* Every complete hand in every pose; every incomplete one in the poses
\* that pinch thumb and index.
TrackerHands ==
    LET HandOf(l, h, p) ==
            [count |-> l.count, absent |-> l.absent,
             categoryName |-> h.categoryName, wristX |-> h.wristX,
             centerY |-> p.centerY, centerX |-> p.centerX,
             thumbIndex |-> p.thumbIndex, thumbPinky |-> p.thumbPinky,
             thumbRing |-> p.thumbRing]
    IN  {HandOf(CompleteHand, h, p) : h \in TrackerHandedness, p \in TrackerPoses}
        \cup {HandOf(l, h, p) : l \in TrackerLandmarks, h \in TrackerHandedness,
                                p \in {q \in TrackerPoses :
                                          q.thumbIndex < pinchThreshold}}

TrackerFrames ==
    {<<>>} \cup {<<h>> : h \in TrackerHands}
           \cup {<<g, h>> : g \in TrackerHands, h \in TrackerHands}

\* hands.onResults: MediaPipe hands over the results of a video frame; the
\* tracker processes them and calls the App's callback.
onResults(results) ==
    LET result == processResults(results)
        w == [s |-> ClearLog(synth),
              a |-> [HandsCallback(app, result) EXCEPT
                       !.results = results, !.delivered = <<result>>]]
        after == Commit(w, app, MaxRenders)
    IN  synth' = after.s /\ app' = after.a

NextTracker == \E results \in TrackerFrames : onResults(results)

TrackerSpec == Init /\ [][NextTracker]_vars

(***************************************************************************)
(* The life of the HandTracker: initialize() awaits the import of the      *)
(* perception module, then starts a loop of processFrame calls, each of    *)
(* which awaits hands.send() and asks for the next animation frame.  A     *)
(* loop is "sending" while its send is awaited, "scheduled" while its      *)
(* animation frame is pending and "idle" when it has ended; the id of an   *)
(* animation frame is the number of the loop that asked for it.            *)
(***************************************************************************)
\* After the await of hands.send(): if (this.isProcessing) requestAnimationFrame
AfterSend(t, i) ==
    IF t.isProcessing
    THEN [t EXCEPT !.animationFrameId = i, !.loops[i] = "scheduled"]
    ELSE [t EXCEPT !.loops[i] = "idle"]

\* processFrame up to its await; ready: videoElement.readyState >= 2
processFrame(t, i, ready) ==
    IF ~t.videoElement \/ t.hands = "null" \/ ~t.isProcessing
    THEN [t EXCEPT !.loops[i] = "idle"]
    ELSE IF ready THEN [t EXCEPT !.loops[i] = "sending"]
    ELSE AfterSend(t, i)

IdleLoops(t) == {i \in 1..MaxLoops : t.loops[i] = "idle"}

startFrameProcessing(t, ready) ==
    IF ~t.videoElement \/ t.hands = "null" \/ t.isProcessing THEN t
    ELSE processFrame([t EXCEPT !.isProcessing = TRUE],
                      CHOOSE i \in IdleLoops(t) : TRUE, ready)

\* HandTracker.stop()
stopTracking(t) ==
    [t EXCEPT !.isProcessing = FALSE,
              !.loops = [i \in 1..MaxLoops |->
                            IF i = t.animationFrameId /\ t.loops[i] = "scheduled"
                            THEN "idle" ELSE t.loops[i]],
              !.animationFrameId = 0,
              !.hands = "null",
              !.videoElement = FALSE,
              !.onResultsCallback = FALSE,
              !.stopped = TRUE,
              !.invoked = FALSE]

Tracker == [app.handTracker EXCEPT !.invoked = FALSE]

\* initialize(videoElement, onResults) up to its await; the App calls it
\* when the camera becomes active, after the cleanup of the previous run.
TrackerInitialize ==
    /\ app.handTracker.stopped \/ app.handTracker = NewHandTracker
    /\ app.handTracker.importing < MaxImports
    /\ app' = [app EXCEPT !.handTracker =
                  [Tracker EXCEPT !.videoElement = TRUE, !.onResultsCallback = TRUE,
                                  !.importing = @ + 1, !.stopped = FALSE]]
    /\ UNCHANGED synth

\* The import resolves: new Hands(...), onResults registered,
\* startFrameProcessing().
ImportResolves(ready) ==
    /\ app.handTracker.importing > 0
    /\ IdleLoops(app.handTracker) # {}
    /\ app' = [app EXCEPT !.handTracker =
                  startFrameProcessing([Tracker EXCEPT !.importing = @ - 1,
                                                       !.hands = "open"], ready)]
    /\ UNCHANGED synth

\* The import fails or holds no Hands class: initialize() throws.
ImportFails ==
    /\ app.handTracker.importing > 0
    /\ app' = [app EXCEPT !.handTracker = [Tracker EXCEPT !.importing = @ - 1]]
    /\ UNCHANGED synth

\* The send of loop i reports results: processResults returns at once
\* without a callback and calls it otherwise.
SendReports(i) ==
    /\ app.handTracker.loops[i] = "sending"
    /\ app' = [app EXCEPT !.handTracker =
                  [Tracker EXCEPT !.invoked = app.handTracker.onResultsCallback]]
    /\ UNCHANGED synth

\* The send of loop i settles (resolved or rejected and caught).
SendSettles(i) ==
    /\ app.handTracker.loops[i] = "sending"
    /\ app' = [app EXCEPT !.handTracker = AfterSend(Tracker, i)]
    /\ UNCHANGED synth

\* The animation frame of loop i arrives.
FrameArrives(i, ready) ==
    /\ app.handTracker.loops[i] = "scheduled"
    /\ app' = [app EXCEPT !.handTracker = processFrame(Tracker, i, ready)]
    /\ UNCHANGED synth

TrackerStop ==
    /\ app' = [app EXCEPT !.handTracker = stopTracking(app.handTracker)]
    /\ UNCHANGED synth

NextLifecycle ==
    \/ TrackerInitialize
    \/ \E ready \in BOOLEAN : ImportResolves(ready)
    \/ ImportFails
    \/ \E i \in 1..MaxLoops : SendReports(i)
    \/ \E i \in 1..MaxLoops : SendSettles(i)
    \/ \E i \in 1..MaxLoops, ready \in BOOLEAN : FrameArrives(i, ready)
    \/ TrackerStop

LifecycleSpec == Init /\ [][NextLifecycle]_vars

(***************************************************************************)
(* SessionSpec: gesture tracking switched on and off under the whole       *)
(* component.  Enabling the camera runs the tracking effect, which         *)
(* initializes the tracker; a send in flight reports a frame of results to *)
(* the App's callback; disabling the camera (or unmounting) runs the       *)
(* effect's cleanup.  The button, the frames and the passing of time are   *)
(* those of ControlSpec.                                                   *)
(***************************************************************************)
\* hands.onResults -> processResults -> the callback given by the App
SessionFrame(result) ==
    /\ \E i \in 1..MaxLoops : app.handTracker.loops[i] = "sending"
    /\ app.handTracker.onResultsCallback
    /\ TrackedFrame(result)

\* The cleanup of the tracking effect: isMounted = false, clearTimeout,
\* handTracker.stop()
TrackingCleanup == ~app.handTracker.stopped /\ TrackerStop

NextSession ==
    \/ StartPressed
    \/ TrackerInitialize
    \/ \E ready \in BOOLEAN : ImportResolves(ready)
    \/ \E i \in 1..MaxLoops, ready \in BOOLEAN : FrameArrives(i, ready)
    \/ \E result \in ControlResults : SessionFrame(result)
    \/ FadeInTimer
    \/ \E dt \in ControlSteps : ControlTick(dt)
    \/ TrackingCleanup

SessionSpec == Init /\ [][NextSession]_vars

(***************************************************************************)
(* StopSpec: the engine stopped while osc.stop() may throw for any of the  *)
(* voices.                                                                 *)
(***************************************************************************)
StopWhere(failing) ==
    /\ failing \subseteq 1..Len(synth.oscillators)
    /\ synth' = stopWhere(ClearLog(synth), failing)
    /\ UNCHANGED app

StopFailures == SUBSET (1..5)

NextStop ==
    \/ Initialize
    \/ Start
    \/ \E failing \in StopFailures : StopWhere(failing)
    \/ Dispose
    \/ \E r \in RootArgs, x \in ExtensionArgs, q \in QualityArgs : SetChord(r, x, q)
    \/ \E o \in OpennessArgs : SetWaveformFromOpenness(o)
    \/ \E d \in FreezeDurationArgs : FadeOut(d)
    \/ \E d \in FreezeDurationArgs : FadeIn(d)
    \/ \E c \in CutoffArgs : SetMaxFilterCutoff(c)

StopSpec == Init /\ [][NextStop]_vars

(***************************************************************************)
(* MorphSpec: the waveform morph, with openness on both sides of the clamp *)
(* at 0 and 1, of the 0.01 anti-chatter step and of the 0.05 and 0.95      *)
(* thresholds, on a stopped and on a playing engine.                       *)
(***************************************************************************)
MorphArgs == {-200, 0, 5, 10, 50, 51, 55, 500, 949, 950, 995, 1000, 1200}
MorphChordArgs == {<<48, 7, "minor">>, <<48, 9, "minor">>}

NextMorph ==
    \/ Initialize
    \/ Start
    \/ Stop
    \/ \E c \in MorphChordArgs : SetChord(c[1], c[2], c[3])
    \/ \E o \in MorphArgs : SetWaveformFromOpenness(o)

MorphSpec == Init /\ [][NextMorph]_vars

(***************************************************************************)
(* PrioritySpec: pitch pinches of both hands in one detection result.  The *)
(* App is started and not stopped again; both hands are in view and show   *)
(* every pair of pitch pinches the four branches tell apart, as new and as *)
(* held pinches; time passes in steps of half a debounce delay and of a    *)
(* whole one, during the first PriorityLife ticks of the audio clock.      *)
(***************************************************************************)
PriorityLife == 20

PriorityResults ==
    {[leftHand |-> OpenHand, rightHand |-> OpenHand],
     [leftHand |-> PinkyPinch, rightHand |-> PinkyPinch],
     [leftHand |-> PinkyPinch, rightHand |-> IndexPinch],
     [leftHand |-> IndexPinch, rightHand |-> IndexPinch],
     [leftHand |-> IndexPinch, rightHand |-> PinkyPinch],
     [leftHand |-> IndexPinch, rightHand |-> BothPinches],
     [leftHand |-> BothPinches, rightHand |-> OpenHand]}

PrioritySteps == {250, 500}

PriorityTick(dt) == synth.time + dt \div 50 <= PriorityLife /\ Tick(dt)

NextPriority ==
    \/ StartButton
    \/ \E result \in PriorityResults : HandFrame(result)
    \/ FadeInTimer
    \/ \E dt \in PrioritySteps : PriorityTick(dt)

PrioritySpec == Init /\ [][NextPriority]_vars

(***************************************************************************)
(* Claims.                                                                 *)
(***************************************************************************)
\* The first call the last step made on the engine.
Called(e, op) == e.log # <<>> /\ e.log[1].op = op

CalledWith(e, op, result) == Called(e, op) /\ e.log[1].result = result

\* C1: in every reachable state, a playing engine runs 4 voices when the
\* extension is SEVENTH and 5 when it is NINTH.
C1_VoiceCountMatchesExtension ==
    synth.isPlaying =>
        /\ synth.chordExtension \in {7, 9}
        /\ synth.chordExtension = 7 => Len(synth.oscillators) = 4
        /\ synth.chordExtension = 9 => Len(synth.oscillators) = 5

\* A playing NINTH chord of 5 voices reached by re-voicing a running bank.
C1_Witness ==
    /\ synth.isPlaying
    /\ synth.chordExtension = 9
    /\ Len(synth.oscillators) = 5
    /\ CalledWith(synth, "setChord", "rebuild")

\* C2: while playing, a setChord whose extension differs from the current
\* one ends with a bank of newly created voices (none of the old oscillator
\* objects) whose size is 4 for SEVENTH and 5 for NINTH, for any root and
\* quality.
C2_ExtensionChangeRebuildsBank ==
    [][(/\ Called(synth', "setChord")
        /\ synth.isPlaying
        /\ synth'.log[1].args[2] # synth.chordExtension)
       => /\ synth'.isPlaying
          /\ synth'.chordExtension = synth'.log[1].args[2]
          /\ Len(synth'.oscillators) = (IF synth'.log[1].args[2] = 7 THEN 4 ELSE 5)
          /\ BankIds(synth'.oscillators) \cap BankIds(synth.oscillators) = {}
          /\ Cardinality(BankIds(synth'.oscillators)) = Len(synth'.oscillators)]_vars

\* A 4-voice SEVENTH bank just rebuilt from a NINTH one, at a clamped root.
C2_Witness ==
    /\ CalledWith(synth, "setChord", "rebuild")
    /\ synth.log[1].args[1] = 90
    /\ synth.chordExtension = 7
    /\ Len(synth.oscillators) = 4

\* C3: a setChord whose clamped root, extension and quality equal the
\* current chord (in particular the second of two identical calls in a row)
\* changes no field of the engine: no voice is created and no frequency ramp
\* is scheduled.
C3_SetChordIdempotent ==
    [][Called(synth', "setChord") =>
        LET c == synth'.log[1]
            clamped == IF c.args[1] < 36 THEN 36
                       ELSE IF c.args[1] > 84 THEN 84 ELSE c.args[1]
            same == /\ clamped = synth.rootMidi
                    /\ c.args[2] = synth.chordExtension
                    /\ c.args[3] = synth.chordQuality
            repeated == /\ Called(synth, "setChord")
                        /\ synth.log[1].args = c.args
        IN  (same \/ repeated) =>
                /\ c.result = "noop"
                /\ ClearLog(synth') = ClearLog(synth)]_vars

\* A repeated out-of-range request on a playing engine that did nothing.
C3_Witness ==
    /\ CalledWith(synth, "setChord", "noop")
    /\ synth.log[1].args[1] = 90
    /\ synth.isPlaying

\* C6: fadeOut and fadeIn, with any duration, leave isPlaying and the voice
\* bank (the same oscillator objects, none stopped or created) unchanged.
C6_FadesKeepVoices ==
    [][(Called(synth', "fadeOut") \/ Called(synth', "fadeIn")) =>
        /\ synth'.isPlaying = synth.isPlaying
        /\ synth'.oscillators = synth.oscillators]_vars

\* A playing 5-voice bank on which a fadeIn has just undone an earlier
\* fadeOut's freeze.
C6_Witness ==
    /\ CalledWith(synth, "fadeIn", "unfroze")
    /\ synth.isPlaying
    /\ Len(synth.oscillators) = 5

\* C10: start() on an engine that is not initialized (never initialized, or
\* disposed) fails with an error and leaves isPlaying false and the voice
\* bank empty.
C10_StartRequiresInitialize ==
    [][(Called(synth', "start") /\ synth.audioContext = "null") =>
        /\ synth'.log[1].result = "error"
        /\ ~synth'.isPlaying
        /\ synth'.oscillators = <<>>
        /\ ClearLog(synth') = ClearLog(synth)]_vars

\* start() refused on a disposed engine (frozen is only ever set on an
\* initialized one).
C10_Witness ==
    /\ CalledWith(synth, "start", "error")
    /\ synth.isLfoFrozen
    /\ synth.audioContext = "null"

\* The documented interval table.
DocumentedIntervals(extension, quality) ==
    CASE extension = 7 /\ quality = "minor" -> <<0, 3, 7, 10>>
      [] extension = 7 /\ quality = "major" -> <<0, 4, 7, 11>>
      [] extension = 9 /\ quality = "minor" -> <<0, 3, 7, 10, 14>>
      [] extension = 9 /\ quality = "major" -> <<0, 4, 7, 11, 14>>

\* C5: for every root in [36,84], extension and quality, the voices of a
\* playing engine are set (or ramping) to root + interval of the documented
\* table, in table order: 4 voices for SEVENTH, 5 for NINTH.
C5_VoicePitchesFollowTable ==
    synth.isPlaying =>
        LET table == DocumentedIntervals(synth.chordExtension, synth.chordQuality)
        IN  /\ synth.rootMidi \in 36..84
            /\ Len(synth.oscillators) = Len(table)
            /\ \A i \in 1..Len(table) :
                   EndValue(synth.oscillators[i].frequency) = synth.rootMidi + table[i]

\* Root 48, SEVENTH, MINOR started: MIDI notes 48, 51, 55, 58.
C5_Witness ==
    /\ CalledWith(synth, "start", "ok")
    /\ synth.rootMidi = 48 /\ synth.chordExtension = 7 /\ synth.chordQuality = "minor"
    /\ [i \in 1..Len(synth.oscillators) |-> synth.oscillators[i].frequency.value]
           = <<48, 51, 55, 58>>

\* p holds exactly the fade's own automation: the current value pinned at
\* now, then one ramp to target ending fadeTime later.
OnlyNewRamp(p, current, target, now, fadeTime) ==
    p.events = <<[type |-> "set", v |-> current, t |-> now],
                 [type |-> "ramp", v |-> target, t |-> now + fadeTime]>>

\* C8: every fadeIn and fadeOut on an initialized engine leaves the master
\* gain with exactly one pending ramp, its own, starting from the current
\* gain value (to 0 for fadeOut, to the target volume 0.3 for fadeIn); when
\* the call changes the freeze state the same holds for the LFO depth-gain
\* and the center-offset.
C8_FadeSupersedesPendingRamps ==
    [][(/\ synth.audioContext = "running"
        /\ Len(synth'.log) = 1
        /\ synth'.log[1].op \in {"fadeOut", "fadeIn"})
       => LET c == synth'.log[1]
              fadeTime == IF c.args = <<>> THEN 60 ELSE c.args[1]
              now == synth.time
          IN  /\ OnlyNewRamp(synth'.gain, synth.gain.value,
                             IF c.op = "fadeOut" THEN 0 ELSE 300, now, fadeTime)
              /\ synth'.isLfoFrozen # synth.isLfoFrozen =>
                     /\ Len(synth'.lfoGain.events) = 2
                     /\ Len(synth'.lfoOffset.events) = 2
                     /\ OnlyNewRamp(synth'.lfoGain, synth.lfoGain.value,
                                    synth'.lfoGain.events[2].v, now, fadeTime)
                     /\ OnlyNewRamp(synth'.lfoOffset, synth.lfoOffset.value,
                                    synth'.lfoOffset.events[2].v, now, fadeTime)]_vars

\* A fadeIn that took over half-way through a fadeOut: its ramps start from
\* the values the cancelled ramps had reached.
C8_Witness ==
    /\ CalledWith(synth, "fadeIn", "unfroze")
    /\ synth.time = 30
    /\ synth.gain.events[1].v = 150
    /\ synth.gain.events[2].v = 300
    /\ synth.lfoGain.events[1].v \notin {0, synth.lfoGain.events[2].v}

\* C9: on an initialized engine, a fadeOut immediately followed by a fadeIn
\* (no audio time in between) leaves the depth-gain ending at the nominal
\* depth amplitude (maxCutoff - minCutoff) * lfoDepth / 2 and the
\* center-offset ending at (minCutoff + maxCutoff) / 2, leaves the current
\* value of both as it was before the fadeOut, and leaves frozen false.
C9_FreezeUnfreezeRestoresModulation ==
    [][(/\ synth.audioContext = "running"
        /\ Len(synth'.log) = 2
        /\ synth'.log[1].op = "fadeOut"
        /\ synth'.log[2].op = "fadeIn")
       => /\ EndValue(synth'.lfoGain) = ((synth.maxCutoff - 300) * synth.lfoDepth) \div 200
          /\ EndValue(synth'.lfoOffset) = (300 + synth.maxCutoff) \div 2
          /\ synth'.lfoGain.value = synth.lfoGain.value
          /\ synth'.lfoOffset.value = synth.lfoOffset.value
          /\ synth'.time = synth.time
          /\ ~synth'.isLfoFrozen]_vars

\* A freeze taken 1.5 s into the engine's life and undone at once, with
\* maxCutoff 8000 and depth 50%: the depth-gain ends at 1925 Hz, the
\* center-offset at 4150 Hz.
C9_Witness ==
    /\ Len(synth.log) = 2
    /\ synth.log[1].op = "fadeOut" /\ synth.log[1].result = "froze"
    /\ synth.log[2].op = "fadeIn" /\ synth.log[2].result = "unfroze"
    /\ synth.time = 30
    /\ synth.maxCutoff = 8000 /\ synth.lfoDepth = 50
    /\ EndValue(synth.lfoGain) = 1925
    /\ EndValue(synth.lfoOffset) = 4150

\* C7: from the freeze until the next fadeIn, whatever setters are called,
\* the LFO depth-gain stays scheduled to end at 0 and the center-offset
\* stays scheduled to end where the freeze pinned it.
C7_FrozenRampsStayPinned ==
    [][(/\ synth.audioContext = "running"
        /\ synth.isLfoFrozen /\ synth'.isLfoFrozen)
       => /\ EndValue(synth'.lfoGain) = 0
          /\ EndValue(synth'.lfoOffset) = EndValue(synth.lfoOffset)]_vars

\* The root the engine stores for a requested root.
ClampedRoot(root) == IF root < 36 THEN 36 ELSE IF root > 84 THEN 84 ELSE root

\* C4: the chord root stays in [36,84] in every reachable state: the root
\* the engine holds is the last requested root brought into [36,84], and
\* the mapper's own root never leaves [36,84] whatever pitch gestures were
\* accepted.
C4_RootStaysInRange ==
    /\ synth.rootMidi \in 36..84
    /\ app.rootMidi \in 36..84
    /\ \A i \in 1..Len(synth.log) :
           (/\ synth.log[i].op = "setChord"
            /\ \A j \in (i + 1)..Len(synth.log) : synth.log[j].op # "setChord")
           => synth.rootMidi = ClampedRoot(synth.log[i].args[1])

\* A +2 gesture accepted with the root already at 84: the mapper asks the
\* engine for 84 again.
C4_Witness ==
    /\ app.rootMidi = 84
    /\ app.rightHandPinchPinky /\ app.sincePitchChange = 0
    /\ \E i \in 1..Len(synth.log) :
           /\ synth.log[i].op = "setChord"
           /\ synth.log[i].args[1] = 84
           /\ synth.log[i].result = "noop"

\* The calls of the last step include one of op.
Made(e, op) == \E i \in 1..Len(e.log) : e.log[i].op = op

\* C11: an engine that is not initialized refuses setChord,
\* setMaxFilterCutoff, setLfoRate, setLfoDepth, fadeIn and fadeOut: the call
\* signals a failure and changes no state.
C11_UninitializedEngineRefuses ==
    [][(/\ synth.audioContext = "null"
        /\ Len(synth'.log) = 1
        /\ synth'.log[1].op \in {"setChord", "setMaxFilterCutoff", "setLfoRate",
                                 "setLfoDepth", "fadeIn", "fadeOut"})
       => /\ synth'.log[1].result = "error"
          /\ ClearLog(synth') = ClearLog(synth)]_vars

\* C12: dispose() completes from every engine state and leaves the engine
\* not playing, with no voices and no audio context, so that a start() that
\* follows is refused.
C12_DisposeAlwaysCleans ==
    [][Made(synth', "dispose")
       => /\ synth'.log[Len(synth'.log)] = [op |-> "dispose", args |-> <<>>, result |-> "ok"]
          /\ ~synth'.isPlaying
          /\ synth'.oscillators = <<>>
          /\ synth'.audioContext = "null"
          /\ start(ClearLog(synth')).log[1].result = "error"
          /\ ~start(ClearLog(synth')).isPlaying]_vars

\* dispose() of an engine that was playing a NINTH chord and had been faded
\* out.
C12_Witness ==
    /\ Made(synth, "dispose")
    /\ CalledWith(synth, "stop", "ok")
    /\ synth.isLfoFrozen
    /\ synth.chordExtension = 9

\* C13: in every reachable state the stored maxCutoff is in [400, 20000]
\* Hz, the stored LFO rate in [0.1, 7] Hz and the stored LFO depth in
\* [0.1, 1.0], whatever values were requested.
C13_ModulationParametersInRange ==
    /\ synth.maxCutoff \in 400..20000
    /\ synth.currentLfoRate \in 1..70
    /\ synth.lfoDepth \in 10..100

\* The mapper's highest rate request, 1000 Hz, stored as 7 Hz on an engine
\* holding the highest cutoff and the lowest depth.
C13_Witness ==
    /\ synth.log = <<[op |-> "setLfoRate", args |-> <<10000>>, result |-> "ok"]>>
    /\ synth.currentLfoRate = 70
    /\ synth.maxCutoff = 20000
    /\ synth.lfoDepth = 10

\* C14: for every stored maxCutoff and lfoDepth and every LFO phase, the
\* cutoff the engine reports at a non-frozen time lies within
\* [minCutoff, maxCutoff] inclusive, and is the centerpoint
\* (minCutoff + maxCutoff) / 2 when the sine is 0.
C14_ReportedCutoffWithinRange ==
    (Called(synth, "getActualFilterFrequency") /\ ~synth.isLfoFrozen)
    => LET reported == synth.log[1].result
       IN  /\ reported >= 300
           /\ reported <= synth.maxCutoff
           /\ LfoSine(synth.currentLfoRate, synth.time - synth.lfoStartTime) = 0
                  => reported = (300 + synth.maxCutoff) \div 2

\* The cutoff read at the LFO's crest with full depth: maxCutoff itself.
C14_Witness ==
    /\ Called(synth, "getActualFilterFrequency")
    /\ LfoSine(synth.currentLfoRate, synth.time - synth.lfoStartTime) = 1000
    /\ synth.lfoDepth = 100
    /\ synth.maxCutoff = 8000
    /\ synth.log[1].result = 8000

\* A step in which a pitch action fired: only a permitted pitch action
\* restarts the pitch debounce.
PitchFired == app.sincePitchChange # 0 /\ app'.sincePitchChange = 0

\* A step in which the extension toggle fired.
ToggleFired == app.sinceChordToggle # 0 /\ app'.sinceChordToggle = 0

\* The pinch is true in this evaluation and was false in the previous one.
Rose(pinch) == app'[pinch] /\ ~app[pinch]

\* C15: a discrete action fires in an evaluation only if its pinch is true
\* in that evaluation and was false in the previous one (so a pinch that is
\* held fires at most once).
C15_ActionsFireOnRisingEdge ==
    [][/\ PitchFired => \/ Rose("rightHandPinchPinky") \/ Rose("leftHandPinchPinky")
                        \/ Rose("rightHandPinchUp") \/ Rose("leftHandPinchDown")
       /\ ToggleFired => Rose("leftHandPinchRing")]_vars

\* C16: a pitch action is permitted only if more than 500 ms have elapsed
\* since the last permitted pitch action, an extension toggle only if more
\* than 300 ms have elapsed since the last permitted toggle.
C16_DebounceExceeds ==
    [][/\ PitchFired => app.sincePitchChange > 500
       /\ ToggleFired => app.sinceChordToggle > 300]_vars

\* C16 as the code has it: a pitch action is permitted only if at least
\* 500 ms have elapsed since the last permitted pitch action, an extension
\* toggle only if at least 300 ms have elapsed since the last permitted
\* toggle.
C16_DebounceAtLeast ==
    [][/\ PitchFired => app.sincePitchChange >= 500
       /\ ToggleFired => app.sinceChordToggle >= 300]_vars

\* Two +2 pitch actions within the first 500 ms of the audio clock: the
\* second one fired exactly 500 ms after the first.
C16_Witness ==
    /\ synth.time = 10
    /\ app.rootMidi = 52
    /\ app.sincePitchChange = 0

TwoSemitoneTrigger ==
    \/ app'.rightHandPinchPinky /\ ~app.previousRightPinchPinky
    \/ app'.leftHandPinchPinky /\ ~app.previousLeftPinchPinky

\* C18: for every root in [36,84], a one-semitone pitch gesture that fires
\* toggles the mapper's chord quality (once: the quality changes in no other
\* step) and asks the engine for the toggled quality, and a two-semitone
\* gesture that fires leaves the quality as it was.
C18_QualityTogglesWithOneSemitone ==
    [][/\ (PitchFired /\ TwoSemitoneTrigger)
              => app'.chordQuality = app.chordQuality
       /\ (PitchFired /\ ~TwoSemitoneTrigger)
              => /\ app'.chordQuality # app.chordQuality
                 /\ app'.chordQuality \in {"minor", "major"}
                 /\ \E i \in 1..Len(synth'.log) :
                        /\ synth'.log[i].op = "setChord"
                        /\ synth'.log[i].args[3] = app'.chordQuality
       /\ ~PitchFired => app'.chordQuality = app.chordQuality]_vars

\* A +1 gesture accepted at root 84: the root stays, the quality toggles.
C18_Witness ==
    /\ app.rootMidi = 84 /\ app.chordQuality = "major"
    /\ app.rightHandPinchUp /\ ~app.rightHandPinchPinky
    /\ app.sincePitchChange = 0
    /\ \E i \in 1..Len(synth.log) :
           synth.log[i] = [op |-> "setChord", args |-> <<84, 7, "major">>,
                           result |-> "retune"]
    /\ synth.rootMidi = 84 /\ synth.chordQuality = "major"


\* The pitch action that fires in this step is the right hand's +2 (the
\* first branch the mapper tries), or the left hand's -2 (the second).
RightTwoSemitone == app'.rightHandPinchPinky /\ ~app.previousRightPinchPinky

LeftTwoSemitone ==
    /\ ~RightTwoSemitone
    /\ app'.leftHandPinchPinky /\ ~app.previousLeftPinchPinky

\* C19: when a right-hand two-semitone gesture is accepted while the root is
\* r, the engine's chord at the end of the evaluation has root min(84, r+2)
\* and the quality it had; its extension is the one it had unless the
\* extension toggle fired in the same evaluation.  An accepted left-hand
\* two-semitone gesture leaves the engine's root at max(36, r-2) likewise.
C19_TwoSemitoneReachesEngine ==
    [][/\ (PitchFired /\ RightTwoSemitone) =>
              synth'.rootMidi = IF app.rootMidi + 2 > MaxRoot THEN MaxRoot
                                ELSE app.rootMidi + 2
       /\ (PitchFired /\ LeftTwoSemitone) =>
              synth'.rootMidi = IF app.rootMidi - 2 < MinRoot THEN MinRoot
                                ELSE app.rootMidi - 2
       /\ (PitchFired /\ (RightTwoSemitone \/ LeftTwoSemitone)) =>
              /\ synth'.chordQuality = app.chordQuality
              /\ ~ToggleFired => synth'.chordExtension = app.chordExtension]_vars


\* Some hand was in view before the step and none is after it.
HandsLost ==
    /\ app.leftHandDetected \/ app.rightHandDetected
    /\ ~app'.leftHandDetected /\ ~app'.rightHandDetected

\* C20: whenever both hands become undetected while the engine is playing,
\* fadeOut is invoked in that evaluation: the master gain is left with one
\* ramp, from its current value to 0, ending the configured fade duration
\* (3.0 s) later; the voices are the ones that were sounding and the engine
\* and the App still report playing.
C20_LosingHandsFadesOut ==
    [][(synth.isPlaying /\ HandsLost) =>
           /\ Made(synth', "fadeOut")
           /\ OnlyNewRamp(synth'.gain, synth.gain.value, 0, synth.time,
                          fadeDuration)
           /\ synth'.oscillators = synth.oscillators
           /\ synth.oscillators # <<>>
           /\ synth'.isPlaying /\ app'.isPlaying]_vars

\* The hands left the view half a second after playback began: the App and
\* the engine are playing, no hand is detected, and the step's only engine
\* call was the fadeOut that froze the filter and ramps the gain from the
\* target volume to 0 over 3.0 s.
C20_Witness ==
    /\ app.isPlaying /\ synth.isPlaying
    /\ ~app.leftHandDetected /\ ~app.rightHandDetected
    /\ synth.log = <<[op |-> "fadeOut", args |-> <<>>, result |-> "froze"]>>
    /\ synth.time = 10
    /\ synth.oscillators # <<>>
    /\ synth.gain.events = <<[type |-> "set", v |-> targetVolume, t |-> 10],
                             [type |-> "ramp", v |-> 0, t |-> 70]>>


\* C21: in an evaluation in which the right hand's or the left hand's
\* one-semitone pinch is active and the right hand is in view, the engine's
\* max cutoff is not set; in an evaluation in which any pinch of the left
\* hand (one-semitone, two-semitone, extension toggle) is active, the LFO
\* depth is not set.  The stored cutoff, resp. depth, is what it was.
C21_PinchSuspendsContinuousMapping ==
    [][/\ (app'.rightHandDetected
           /\ (app'.rightHandPinchUp \/ app'.leftHandPinchDown))
              => /\ ~Made(synth', "setMaxFilterCutoff")
                 /\ synth'.maxCutoff = synth.maxCutoff
       /\ (\/ app'.leftHandPinchDown
           \/ app'.leftHandPinchPinky
           \/ app'.leftHandPinchRing)
              => /\ ~Made(synth', "setLfoDepth")
                 /\ synth'.lfoDepth = synth.lfoDepth]_vars


\* The right hand, held at the top of the frame, makes the one-semitone
\* pinch: the smoothed position has moved on (the rate is set from it) but
\* the cutoff is the one the open hand had reached.
C21_Witness ==
    /\ app.isPlaying /\ app.rightHandPinchUp
    /\ app.rightHandCenterY = 0
    /\ app.smoothedRightHandCenterY = 361
    /\ synth.maxCutoff = CutoffFromY(425)
    /\ Made(synth, "setLfoRate")
    /\ ~Made(synth, "setMaxFilterCutoff")


\* Some call of the last step was op with these arguments.
MadeWith(e, op, args) ==
    \E i \in 1..Len(e.log) : e.log[i].op = op /\ e.log[i].args = args

\* C22: at the end of every evaluation while playing in which the right hand
\* is not detected the engine's LFO rate is the default 0.2 Hz and its max
\* cutoff the default 1000 Hz, and the evaluation in which the right hand
\* is lost, or playback begins without it, makes the two calls that set
\* them; likewise the LFO depth is the default 1.0 while the left hand is
\* not detected.
C22_UndetectedHandRevertsToDefaults ==
    [][/\ (app'.isPlaying /\ ~app'.rightHandDetected) =>
              /\ synth'.currentLfoRate = 2 /\ synth'.maxCutoff = 1000
              /\ (app.rightHandDetected \/ ~app.isPlaying) =>
                     /\ MadeWith(synth', "setLfoRate", <<2>>)
                     /\ MadeWith(synth', "setMaxFilterCutoff", <<1000>>)
       /\ (app'.isPlaying /\ ~app'.leftHandDetected) =>
              /\ synth'.lfoDepth = 100
              /\ (app.leftHandDetected \/ ~app.isPlaying) =>
                     MadeWith(synth', "setLfoDepth", <<100>>)]_vars

\* The right hand has left the view while the left one stays: the rate and
\* the cutoff it had set from the centre of the frame (7 Hz, 1549 Hz) have
\* been replaced by the defaults, and the center-offset is on its way from
\* the old centerpoint to the new one.
C22_Witness ==
    /\ app.isPlaying /\ ~app.rightHandDetected /\ app.leftHandDetected
    /\ MadeWith(synth, "setLfoRate", <<2>>)
    /\ MadeWith(synth, "setMaxFilterCutoff", <<1000>>)
    /\ synth.currentLfoRate = 2 /\ synth.maxCutoff = 1000
    /\ synth.lfo.value = 70
    /\ synth.lfoOffset.value = (minCutoff + CutoffFromY(500)) \div 2
    /\ synth.lfoDepth = DepthFromY(500)


\* The landmark set lacks required points: fewer than 21 landmarks, or the
\* wrist, a palm landmark or a fingertip is absent.
MissingRequiredPoints(landmarks) ==
    \/ landmarks.count < 21
    \/ landmarks.absent \cap ({0} \cup {5, 9, 13, 17} \cup {4, 8, 12, 16, 20}) # {}

\* What the App's state shows of a hand it was told about.
Shown(a, side) ==
    IF side = "rightHand"
    THEN [detected |-> a.rightHandDetected,
          pinches |-> <<a.rightHandPinchUp, a.rightHandPinchPinky>>]
    ELSE [detected |-> a.leftHandDetected,
          pinches |-> <<a.leftHandPinchDown, a.leftHandPinchPinky>>]

\* C23: for the frame processed last, the callback was given a result and
\* the App shows it; every hand the result reports as detected is a hand of
\* the frame with all its required points, with that hand's own centre and
\* pinches; a hand that lacks required points and is the last of its side
\* in the frame is reported not detected with every pinch flag false.
C23_IncompleteHandIsNotDetected ==
    app.results # <<>> =>
        /\ Len(app.delivered) = 1
        /\ LET out == app.delivered[1]
               hands == app.results
               SideOf(i) == IF IsRight(hands[i]) THEN "rightHand" ELSE "leftHand"
           IN  /\ \A side \in {"leftHand", "rightHand"} :
                      /\ Shown(app, side).detected = out[side].detected
                      /\ Shown(app, side).pinches
                             = <<out[side].pinchUp, out[side].pinchPinky>>
                      /\ out[side].detected =>
                             \E i \in 1..Len(hands) :
                                 /\ ~MissingRequiredPoints(hands[i])
                                 /\ SideOf(i) = side
                                 /\ out[side].centerY = hands[i].centerY
                                 /\ out[side].centerX = hands[i].centerX
                                 /\ out[side].pinchUp = (hands[i].thumbIndex < 30)
                                 /\ out[side].pinchPinky = (hands[i].thumbPinky < 30)
                                 /\ out[side].pinchRing = (hands[i].thumbRing < 30)
               /\ \A i \in 1..Len(hands) :
                      (/\ MissingRequiredPoints(hands[i])
                       /\ \A j \in (i + 1)..Len(hands) : SideOf(j) # SideOf(i))
                          => /\ hands[i].count > 0 /\ 0 \notin hands[i].absent
                                 => out[SideOf(i)] = defaultHand
                             /\ \A j \in 1..Len(hands) :
                                    (j # i /\ SideOf(j) # SideOf(i)
                                       /\ ~MissingRequiredPoints(hands[j]))
                                        => out[SideOf(j)] = processHand(hands[j])

\* A frame of two hands: the one labelled Right has 20 landmarks, the other
\* is complete, on the left by its wrist position, and pinches thumb and
\* index.  The App shows no right hand and the left hand with its pinch.
C23_Witness ==
    /\ Len(app.results) = 2
    /\ app.results[1].count = 20 /\ app.results[1].categoryName = "Right"
    /\ app.results[1].thumbIndex < 30
    /\ app.results[2].count = 21 /\ app.results[2].absent = {}
    /\ app.results[2].categoryName = "none" /\ app.results[2].wristX = 700
    /\ app.results[2].thumbIndex < 30
    /\ ~app.rightHandDetected /\ ~app.rightHandPinchUp
    /\ app.leftHandDetected /\ app.leftHandPinchDown
    /\ app.leftHandCenterY = 200


\* C24: whenever the engine is playing, every voice has the oscillator type
\* and periodic wave that applyWaveform gives for the current morph value.
C24_VoicesCarryCurrentMorph ==
    synth.isPlaying =>
        \A i \in 1..Len(synth.oscillators) :
            synth.oscillators[i]
                = applyWaveform(synth.oscillators[i], synth.currentWaveformMorph)


\* C25: at the end of every evaluation while playing, the engine's chord
\* (root, extension, quality) is the mapper's chord state.
C25_EngineChordIsMapperChord ==
    app.isPlaying =>
        /\ synth.rootMidi = app.rootMidi
        /\ synth.chordExtension = app.chordExtension
        /\ synth.chordQuality = app.chordQuality


\* C26: whenever the App is playing and no hand is detected, the master
\* gain's automation ends at 0 and the modulation is frozen, however the
\* 10 ms fade-in timer interleaves with the hand-tracking results.
C26_NoHandsMeansFadedOut ==
    (app.isPlaying /\ ~app.leftHandDetected /\ ~app.rightHandDetected) =>
        /\ EndValue(synth.gain) = 0
        /\ synth.isLfoFrozen


\* The cutoff the graph produces now: the center-offset's current value plus
\* the depth-gain's current value times the LFO's output.  The LFO's output
\* is the sine getActualFilterFrequency computes as long as the LFO has run
\* at one rate since it was started.
GraphCutoff(e) ==
    e.lfoOffset.value
        + (LfoSine(e.currentLfoRate, e.time - e.lfoStartTime) * e.lfoGain.value)
              \div 1000

\* C27: the cutoff a freezing fadeOut ramps the center-offset to is the
\* cutoff the graph was producing when it was called.
C27_FreezeTargetIsGraphCutoff ==
    [][(Called(synth', "fadeOut") /\ synth'.log[1].result = "froze")
           => EndValue(synth'.lfoOffset) = GraphCutoff(synth)]_vars


\* C28: frozen becomes true only in a step that calls fadeOut and false only
\* in a step that calls fadeIn; a fadeOut on a frozen engine leaves the
\* depth-gain and the center-offset (values and schedules) as they were, and
\* so does a fadeIn on an engine that is not frozen, which on an initialized
\* engine installs only the master-gain ramp to the target volume 0.3.
C28_FreezeIsTwoStateMachine ==
    [][/\ (~synth.isLfoFrozen /\ synth'.isLfoFrozen) => Made(synth', "fadeOut")
       /\ (synth.isLfoFrozen /\ ~synth'.isLfoFrozen) => Made(synth', "fadeIn")
       /\ (Len(synth'.log) = 1 /\ Called(synth', "fadeOut") /\ synth.isLfoFrozen)
              => /\ synth'.isLfoFrozen
                 /\ synth'.lfoGain = synth.lfoGain
                 /\ synth'.lfoOffset = synth.lfoOffset
       /\ (Len(synth'.log) = 1 /\ Called(synth', "fadeIn") /\ ~synth.isLfoFrozen)
              => /\ ~synth'.isLfoFrozen
                 /\ synth'.lfoGain = synth.lfoGain
                 /\ synth'.lfoOffset = synth.lfoOffset
                 /\ synth.audioContext = "running"
                        => OnlyNewRamp(synth'.gain, synth.gain.value, 300,
                                       synth.time, FadeTime(synth'.log[1].args))]_vars

\* A second fadeOut 1.5 s into a freeze: the two modulation ramps installed
\* by the first are still pending and are the ones that stay, while the
\* master gain gets a new ramp from now.
C28_Witness ==
    /\ CalledWith(synth, "fadeOut", "ok")
    /\ synth.isLfoFrozen
    /\ Len(synth.lfoOffset.events) > 0
    /\ synth.lfoOffset.events[Len(synth.lfoOffset.events)].t > synth.time
    /\ synth.lfoOffset.events[Len(synth.lfoOffset.events)].t < synth.time + 60
    /\ EndValue(synth.lfoGain) = 0
    /\ synth.gain.events[1].t = synth.time


\* C29: while playing, a setChord that changes the (clamped) root and/or the
\* quality but not the extension keeps the oscillator objects: the bank has
\* the same objects in the same order with their waveforms, no current
\* frequency jumps, and each voice's frequency gets one more ramp, ending
\* 50 ms from now at new root + interval i of the new chord, which is where
\* the voice ends.
C29_SameExtensionRetunesInPlace ==
    [][(/\ Len(synth'.log) = 1
        /\ Called(synth', "setChord")
        /\ synth.isPlaying
        /\ synth'.log[1].args[2] = synth.chordExtension
        /\ \/ ClampedRoot(synth'.log[1].args[1]) # synth.rootMidi
           \/ synth'.log[1].args[3] # synth.chordQuality)
       => LET c == synth'.log[1]
              table == DocumentedIntervals(c.args[2], c.args[3])
          IN  /\ synth'.isPlaying
              /\ Len(synth'.oscillators) = Len(synth.oscillators)
              /\ Len(table) = Len(synth.oscillators)
              /\ \A i \in 1..Len(synth.oscillators) :
                     LET old == synth.oscillators[i]
                         new == synth'.oscillators[i]
                         target == ClampedRoot(c.args[1]) + table[i]
                     IN  /\ new.id = old.id
                         /\ new.type = old.type /\ new.wave = old.wave
                         /\ new.frequency.value = old.frequency.value
                         /\ Len(new.frequency.events) = Len(old.frequency.events) + 1
                         /\ [type |-> "ramp", v |-> target, t |-> synth.time + 1]
                                \in {new.frequency.events[k] :
                                        k \in 1..Len(new.frequency.events)}
                         /\ EndValue(new.frequency) = target]_vars

\* A five-voice NINTH bank created at root 48 minor and moved to the clamped
\* root 84 major: the voices still sound 48.. and are ramping to 84, 88, 91,
\* 95, 98.
C29_Witness ==
    /\ CalledWith(synth, "setChord", "retune")
    /\ synth.log[1].args = <<90, 9, "major">>
    /\ synth.isPlaying
    /\ Len(synth.oscillators) = 5
    /\ synth.oscillators[1].frequency.value = 48
    /\ [i \in 1..5 |-> EndValue(synth.oscillators[i].frequency)]
           = <<84, 88, 91, 95, 98>>


\* The last call the step made on the engine.
LastCall(e) == e.log[Len(e.log)]

\* C30: stop() on a playing engine ends with an empty voice bank and
\* isPlaying false whichever osc.stop() calls throw, and osc.stop() has been
\* called on every voice of the bank, in order; stop() on an engine that is
\* not playing changes nothing; in both cases nothing but the bank and
\* isPlaying changes (chord, filter parameters and nodes, morph, frozen).
C30_StopAlwaysEmptiesBank ==
    [][(synth'.log # <<>> /\ LastCall(synth').op = "stop")
       => /\ synth.isPlaying =>
                 /\ synth'.oscillators = <<>>
                 /\ ~synth'.isPlaying
                 /\ LastCall(synth').result = "ok"
                 /\ Len(synth'.log) = Len(synth.oscillators) + 1
                 /\ \A i \in 1..Len(synth.oscillators) :
                        /\ synth'.log[i].op = "osc.stop"
                        /\ synth'.log[i].args = <<synth.oscillators[i].id>>
          /\ ~synth.isPlaying => ClearLog(synth') = ClearLog(synth)
          /\ [synth' EXCEPT !.oscillators = synth.oscillators,
                            !.isPlaying = synth.isPlaying,
                            !.log = <<>>] = ClearLog(synth)
          /\ synth'.rootMidi = synth.rootMidi
          /\ synth'.chordExtension = synth.chordExtension
          /\ synth'.chordQuality = synth.chordQuality
          /\ synth'.maxCutoff = synth.maxCutoff
          /\ synth'.currentWaveformMorph = synth.currentWaveformMorph
          /\ synth'.isLfoFrozen = synth.isLfoFrozen]_vars

\* A frozen four-voice bank stopped while the first voice's osc.stop()
\* threw: the three voices after it were stopped all the same and the bank
\* is empty.
C30_Witness ==
    /\ Len(synth.log) = 5
    /\ LastCall(synth) = [op |-> "stop", args |-> <<>>, result |-> "ok"]
    /\ synth.log[1].result = "threw"
    /\ \A i \in 2..4 : synth.log[i].op = "osc.stop" /\ synth.log[i].result = "ok"
    /\ synth.oscillators = <<>>
    /\ ~synth.isPlaying
    /\ synth.isLfoFrozen


\* C31: start() on an engine that is already playing changes no field of
\* the engine: the bank keeps its oscillator objects, the master gain keeps
\* its value and its schedule, and everything else stays as it was.
C31_StartWhilePlayingIsNoOp ==
    [][(Len(synth'.log) = 1 /\ Called(synth', "start") /\ synth.isPlaying)
       => /\ synth'.log[1].result = "noop"
          /\ synth'.oscillators = synth.oscillators
          /\ synth'.gain = synth.gain
          /\ ClearLog(synth') = ClearLog(synth)]_vars

\* A second start() on a five-voice bank that is fading in: the bank is the
\* same and the ramp to the target volume is still scheduled.
C31_Witness ==
    /\ CalledWith(synth, "start", "noop")
    /\ synth.isPlaying
    /\ Len(synth.oscillators) = 5
    /\ synth.gain.events # <<>>
    /\ EndValue(synth.gain) = targetVolume


\* C32: right after a start() that started the voices, isSilent() is true:
\* the current master gain is below 0.01.
C32_SilentRightAfterStart ==
    [][(Len(synth'.log) = 1 /\ CalledWith(synth', "start", "ok"))
           => isSilent(synth')]_vars


\* C33: the stored morph is always in [0,1]; a setWaveformFromOpenness whose
\* argument, clamped to [0,1], is less than 0.01 away from the stored morph
\* changes nothing; any other call stores the clamped value and sets every
\* running voice to sawtooth if it is at most 0.05, to triangle if it is at
\* least 0.95 and to the custom wave blended at that value in between,
\* leaving the voice's identity and frequency alone.
C33_MorphClampedAndThresholded ==
    [][(Len(synth'.log) = 1 /\ Called(synth', "setWaveformFromOpenness"))
       => LET openness == synth'.log[1].args[1]
              c == IF openness < 0 THEN 0 ELSE IF openness > 1000 THEN 1000
                   ELSE openness
              gap == IF synth.currentWaveformMorph > c
                     THEN synth.currentWaveformMorph - c
                     ELSE c - synth.currentWaveformMorph
          IN  /\ synth'.currentWaveformMorph \in 0..1000
              /\ gap < 10 => ClearLog(synth') = ClearLog(synth)
              /\ gap >= 10 =>
                     /\ synth'.currentWaveformMorph = c
                     /\ Len(synth'.oscillators) = Len(synth.oscillators)
                     /\ \A i \in 1..Len(synth.oscillators) :
                            LET old == synth.oscillators[i]
                                new == synth'.oscillators[i]
                            IN  /\ new.id = old.id
                                /\ new.frequency = old.frequency
                                /\ synth.isPlaying =>
                                     /\ c <= 50 => new.type = "sawtooth"
                                     /\ c >= 950 => new.type = "triangle"
                                     /\ (c > 50 /\ c < 950) =>
                                            new.type = "custom"
                                            /\ new.wave = setCustomWaveform(c)
                     /\ [synth' EXCEPT !.currentWaveformMorph = synth.currentWaveformMorph,
                                       !.oscillators = synth.oscillators,
                                       !.log = <<>>] = ClearLog(synth)]_vars

\* An openness of 1.2 on five playing voices: the morph is stored as 1 and
\* every voice turns triangle.
C33_Witness ==
    /\ CalledWith(synth, "setWaveformFromOpenness", "ok")
    /\ synth.log[1].args = <<1200>>
    /\ synth.currentWaveformMorph = 1000
    /\ synth.isPlaying
    /\ Len(synth.oscillators) = 5
    /\ \A i \in 1..5 : synth.oscillators[i].type = "triangle"


\* An evaluation of the mapper while playing: a detection result arrives
\* and no time passes.
PlayingFrame ==
    /\ app.isPlaying /\ app'.isPlaying
    /\ synth'.time = synth.time
    /\ ~app.fadeInTimer

\* The rising edges the evaluation sees: the pinch is shown now and its
\* previous-state flag was clear.
RingEdge == app'.leftHandDetected /\ app'.leftHandPinchRing /\ ~app.previousLeftPinchRing

PitchEdge ==
    \/ app'.rightHandDetected /\ app'.rightHandPinchUp /\ ~app.previousRightPinchUp
    \/ app'.rightHandDetected /\ app'.rightHandPinchPinky /\ ~app.previousRightPinchPinky
    \/ app'.leftHandDetected /\ app'.leftHandPinchDown /\ ~app.previousLeftPinchDown
    \/ app'.leftHandDetected /\ app'.leftHandPinchPinky /\ ~app.previousLeftPinchPinky

\* C34: the pitch timer is restarted only by an accepted pitch change and
\* the toggle timer only by an accepted extension toggle; a ring-pinch
\* rising edge toggles the extension whenever the toggle timer allows it,
\* however recent the last pitch change, and a two-semitone rising edge of
\* the right hand moves the root whenever the pitch timer allows it, however
\* recent the last toggle.
C34_DebounceTimersAreIndependent ==
    [][PlayingFrame =>
        /\ app'.sincePitchChange # app.sincePitchChange =>
               /\ app'.sincePitchChange = 0
               /\ PitchEdge
               /\ CanAct(app.sincePitchChange, PITCH_CHANGE_DEBOUNCE_MS)
        /\ app'.sinceChordToggle # app.sinceChordToggle =>
               /\ app'.sinceChordToggle = 0
               /\ RingEdge
               /\ CanAct(app.sinceChordToggle, CHORD_TOGGLE_DEBOUNCE_MS)
        /\ (RingEdge /\ CanAct(app.sinceChordToggle, CHORD_TOGGLE_DEBOUNCE_MS)) =>
               /\ app'.chordExtension # app.chordExtension
               /\ app'.sinceChordToggle = 0
        /\ (/\ app'.rightHandDetected /\ app'.rightHandPinchPinky
            /\ ~app.previousRightPinchPinky
            /\ CanAct(app.sincePitchChange, PITCH_CHANGE_DEBOUNCE_MS)) =>
               /\ app'.rootMidi = PitchStep(app.rootMidi, 2)
               /\ app'.sincePitchChange = 0]_vars

\* An extension toggle accepted 200 ms after a pitch change, inside the
\* pitch debounce window.
C34_Witness ==
    /\ app.isPlaying
    /\ MadeWith(synth, "setChord", <<50, 9, "minor">>)
    /\ app.chordExtension = 9
    /\ app.sinceChordToggle = 0
    /\ app.sincePitchChange = 200
    /\ app.rootMidi = 50


\* C35: in every evaluation while playing, a rising edge whose timer is
\* still running changes neither chord nor timer, the previous-state flag
\* of every pinch ends equal to what the hands show, and without a rising
\* edge nothing fires: a pinch held past the window does not act.
C35_DebouncedEdgeIsDiscarded ==
    [][PlayingFrame =>
        /\ (PitchEdge /\ ~CanAct(app.sincePitchChange, PITCH_CHANGE_DEBOUNCE_MS)) =>
               /\ app'.rootMidi = app.rootMidi
               /\ app'.chordQuality = app.chordQuality
               /\ app'.sincePitchChange = app.sincePitchChange
        /\ (RingEdge /\ ~CanAct(app.sinceChordToggle, CHORD_TOGGLE_DEBOUNCE_MS)) =>
               /\ app'.chordExtension = app.chordExtension
               /\ app'.sinceChordToggle = app.sinceChordToggle
        /\ app'.previousRightPinchUp = (app'.rightHandDetected /\ app'.rightHandPinchUp)
        /\ app'.previousRightPinchPinky
               = (app'.rightHandDetected /\ app'.rightHandPinchPinky)
        /\ app'.previousLeftPinchDown = (app'.leftHandDetected /\ app'.leftHandPinchDown)
        /\ app'.previousLeftPinchPinky
               = (app'.leftHandDetected /\ app'.leftHandPinchPinky)
        /\ app'.previousLeftPinchRing = (app'.leftHandDetected /\ app'.leftHandPinchRing)
        /\ ~PitchEdge => /\ app'.rootMidi = app.rootMidi
                         /\ app'.chordQuality = app.chordQuality
        /\ ~RingEdge => app'.chordExtension = app.chordExtension]_vars

\* A left two-semitone pinch shown 200 ms after the right hand's was
\* accepted: the root stays at 50, the pitch timer runs on, and the pinch is
\* flagged as seen.
C35_Witness ==
    /\ app.isPlaying
    /\ app.rootMidi = 50
    /\ app.sincePitchChange = 200
    /\ app.leftHandDetected /\ app.leftHandPinchPinky
    /\ app.previousLeftPinchPinky
    /\ ~MadeWith(synth, "setChord", <<48, 7, "minor">>)


\* Rising edges of the four pitch gestures, as the evaluation sees them.
RightPinkyEdge ==
    app'.rightHandDetected /\ app'.rightHandPinchPinky /\ ~app.previousRightPinchPinky

LeftPinkyEdge ==
    app'.leftHandDetected /\ app'.leftHandPinchPinky /\ ~app.previousLeftPinchPinky

RightIndexEdge ==
    app'.rightHandDetected /\ app'.rightHandPinchUp /\ ~app.previousRightPinchUp

LeftIndexEdge ==
    app'.leftHandDetected /\ app'.leftHandPinchDown /\ ~app.previousLeftPinchDown

\* The step of the highest-priority gesture that is permitted: right +2,
\* left -2, right +1, left -1, the one-semitone gestures only without their
\* hand's pinky pinch; 0 when none is or the pitch timer is running.
PermittedStep ==
    IF ~CanAct(app.sincePitchChange, PITCH_CHANGE_DEBOUNCE_MS) THEN 0
    ELSE IF RightPinkyEdge THEN 2
    ELSE IF LeftPinkyEdge THEN -2
    ELSE IF RightIndexEdge /\ ~app'.rightHandPinchPinky THEN 1
    ELSE IF LeftIndexEdge /\ ~app'.leftHandPinchPinky THEN -1
    ELSE 0

\* The setChord requests of the step that ask for another root or quality
\* than the mapper had.
PitchRequests ==
    {i \in 1..Len(synth'.log) :
        /\ synth'.log[i].op = "setChord"
        /\ \/ synth'.log[i].args[1] # app.rootMidi
           \/ synth'.log[i].args[3] # app.chordQuality}

\* C36: an evaluation while playing applies at most one pitch change, that
\* of the highest-priority permitted gesture: the root moves by that one
\* step (clamped), the quality flips for a one-semitone step only, the
\* engine gets that one request for a new root or quality, the one pitch
\* timer restarts, and every pitch pinch shown is flagged as seen, so the other
\* rising edges are spent.
C36_OnePitchChangePerEvaluation ==
    [][PlayingFrame =>
        /\ app'.rootMidi = (IF PermittedStep = 0 THEN app.rootMidi
                            ELSE PitchStep(app.rootMidi, PermittedStep))
        /\ app'.chordQuality = (IF PermittedStep \in {1, -1}
                                THEN OtherQuality(app.chordQuality)
                                ELSE app.chordQuality)
        /\ Cardinality(PitchRequests) <= 1
        /\ \A i \in PitchRequests :
               synth'.log[i].args = <<app'.rootMidi, app.chordExtension, app'.chordQuality>>
        /\ (PermittedStep # 0 /\ PitchStep(app.rootMidi, PermittedStep) # app.rootMidi)
               => Cardinality(PitchRequests) = 1
        /\ app'.sincePitchChange = (IF PermittedStep = 0 THEN app.sincePitchChange ELSE 0)
        /\ app'.previousRightPinchUp = (app'.rightHandDetected /\ app'.rightHandPinchUp)
        /\ app'.previousRightPinchPinky
               = (app'.rightHandDetected /\ app'.rightHandPinchPinky)
        /\ app'.previousLeftPinchDown = (app'.leftHandDetected /\ app'.leftHandPinchDown)
        /\ app'.previousLeftPinchPinky
               = (app'.leftHandDetected /\ app'.leftHandPinchPinky)]_vars

\* Both hands show a new two-semitone pinch at once: the root went up from
\* 48 to 50 and the left hand's pinch is spent.
C36_Witness ==
    /\ app.isPlaying
    /\ app.rightHandPinchPinky /\ app.leftHandPinchPinky
    /\ MadeWith(synth, "setChord", <<50, 7, "minor">>)
    /\ Len(SelectSeq(synth.log, LAMBDA c : c.op = "setChord" /\ c.result # "noop")) = 1
    /\ app.rootMidi = 50
    /\ app.previousLeftPinchPinky /\ app.previousRightPinchPinky
    /\ app.sincePitchChange = 0
    /\ synth.time > 0


\* C37: an initialize() that builds a graph leaves the engine unfrozen, and
\* the fadeOut that follows a dispose() and a new initialize() freezes: it
\* ramps the depth-gain of the new graph to 0.
C37_NewGraphStartsUnfrozen ==
    [][/\ (Len(synth'.log) = 1 /\ CalledWith(synth', "initialize", "ok"))
              => ~synth'.isLfoFrozen
       /\ (/\ CalledWith(synth, "initialize", "ok")
           /\ Len(synth'.log) = 1 /\ Called(synth', "fadeOut"))
              => /\ synth'.log[1].result = "froze"
                 /\ EndValue(synth'.lfoGain) = 0]_vars


\* The frame loops that have not ended.
ActiveLoops(t) == {i \in 1..MaxLoops : t.loops[i] # "idle"}

\* C38: at most one frame-processing loop is active at any time, and while
\* the tracker is stopped the results callback is not invoked.
C38_OneLoopAndSilentAfterStop ==
    /\ Cardinality(ActiveLoops(app.handTracker)) <= 1
    /\ app.handTracker.stopped => ~app.handTracker.invoked


\* A coefficient of the table is the number
\* sawNum / sawDen + (triNum / triDen) * 8/pi^2.
IsSum(c, sawNum, sawDen, triNum, triDen) ==
    /\ c.den > 0
    /\ c.num * sawDen = sawNum * c.den
    /\ c.piNum * triDen = triNum * c.den

\* A coefficient of the table is the number (num + piNum * 8/pi^2) / den.
IsNumber(c, num, piNum, den) == IsSum(c, num, den, piNum, den)

\* What the claim says of the table of one openness (thousandths).
MorphTable(t, openness) ==
    /\ DOMAIN t.real = 0..31 /\ DOMAIN t.imag = 0..31
    /\ \A i \in 0..31 : IsNumber(t.real[i], 0, 0, 1)
    /\ IsNumber(t.imag[0], 0, 0, 1)
    /\ IsNumber(t.imag[1], 1, 0, 1)
    /\ \A i \in 2..31 :
           \* sawtooth(i) * (1 - openness) + triangle(i) * openness, that is
           \*   (1/i) * (1 - openness)  +  (+-8/(pi^2 i^2) or 0) * openness
           IsSum(t.imag[i],
                 1000 - openness, 1000 * i,
                 IF i % 2 = 0 THEN 0
                 ELSE IF i % 4 = 1 THEN openness ELSE 0 - openness,
                 1000 * i * i)

\* C39: every custom periodic wave of a voice is the table of the current
\* morph value: real parts 0, harmonic 0 zero, harmonic 1 of imaginary
\* amplitude 1 and, from harmonic 2 on, the blend of the sawtooth series 1/i
\* and the triangle series (zero at even harmonics); the table of openness 0
\* is the sawtooth series 1/i and that of openness 1 is zero at every even
\* harmonic from 2 on.
C39_HarmonicTableIsTheBlend ==
    /\ \A k \in 1..Len(synth.oscillators) :
           synth.oscillators[k].type = "custom"
               => /\ synth.currentWaveformMorph \in 51..949
                  /\ MorphTable(synth.oscillators[k].wave, synth.currentWaveformMorph)
    /\ \A i \in 1..31 : IsNumber(setCustomWaveform(0).imag[i], 1, 0, i)
    /\ \A i \in 2..31 : i % 2 = 0 => IsNumber(setCustomWaveform(1000).imag[i], 0, 0, 1)

\* Five playing voices carry the table of openness 0.5, whose second
\* harmonic is 1/4 and whose third is 1/6 - (8/pi^2)/18.
C39_Witness ==
    /\ synth.isPlaying /\ Len(synth.oscillators) = 5
    /\ synth.currentWaveformMorph = 500
    /\ \A k \in 1..5 : /\ synth.oscillators[k].type = "custom"
                       /\ IsNumber(synth.oscillators[k].wave.imag[2], 1, 0, 4)
                       /\ IsNumber(synth.oscillators[k].wave.imag[3], 3, -1, 18)


\* The gesture input state of the mapper: the smoothed positions, the
\* previous state of every pinch and the two debounce clocks.
GestureInput(a) ==
    <<a.smoothedRightHandCenterY, a.smoothedRightHandCenterX,
      a.smoothedLeftHandCenterY,
      a.previousRightPinchUp, a.previousLeftPinchDown,
      a.previousRightPinchPinky, a.previousLeftPinchPinky,
      a.previousLeftPinchRing,
      a.sincePitchChange, a.sinceChordToggle>>

\* C40: whenever gesture tracking is stopped, the smoothed hand positions,
\* the previous state of every pinch and the debounce clocks have their
\* initial values.
C40_TrackingStopResetsGestureInput ==
    app.handTracker.stopped => GestureInput(app) = GestureInput(NewApp)

=============================================================================
